---- MODULE Spec2Model ----
(***************************************************************************)
(* Heuristic validation engine of code-directives: the code-quality,       *)
(* security and performance validators and the orchestrators that merge    *)
(* their results (BestPracticesSDK.validate, CodeDirectivesSDK.validate,   *)
(* runAudit).                                                              *)
(*                                                                         *)
(* A project file is a sequence of lines.  The validators look at a line   *)
(* only through regular expressions and string tests, so a line is one of  *)
(* a few concrete source lines (the table below gives the text of each)    *)
(* and every test the code applies to a line is a table over those lines.  *)
(* Line indices are 0-based, as in the code; At(lines, i) is lines[i].     *)
(***************************************************************************)
EXTENDS Integers, Sequences, FiniteSets, TLC

\* ---------------------------------------------------------------- bounds
MaxLines == 4
MaxCalls == 2
MaxSecretLines == 2
MaxCount == 13

\* the segments of the project path the validators are given
VARIABLE projectPath

\* ----------------------------------------------------------------- lines
\* kind      source line it stands for
\* func      function f(a) {
\* func1     function g() {}
\* stmt        return a;
\* close     }
\* cmt       // note
\* doc       /** note */
\* secret    const apiKey = "AKIA1234567890123456";
\* secret:ex const exampleKey = "AKIA1234567890123456"; // example key
\* cmt:secret // Example API key: AKIA1234567890123456
\* pwd         password: "supersecretpassword123",
\* log         console.log(a);
\* for         for (let i = 0; i < n; i++) {
\* big       a data line of 100001 characters without braces
\* req       const _ = require('lodash');
\* arrow     const add = (a, b) => a + b;
\* imp:sub   import map from 'lodash/map';
\* imp:scoped import x from '@scope/name/sub';
\* req:rel   const u = require('./lodash');
\* imp:open  import { map,            (an import statement wrapped over
\* imp:from    filter } from 'lodash';  two lines)
\* fix:f     // f - Add description here     (the auto-fix placeholders)
\* fix:g     // g - Add description here
\* fix:for   // for - Add description here
\* fix:add   // add - Add description here
LineKinds ==
  {"func", "func1", "stmt", "close", "cmt", "doc", "secret", "secret:ex", "cmt:secret", "pwd",
   "log", "for", "big", "req", "arrow", "fix:f", "fix:g", "fix:for", "fix:add",
   "imp:sub", "imp:scoped", "req:rel", "imp:open", "imp:from"}

\* `// ${func.name} - Add description here`
Placeholder(name) ==
  CASE name = "f"   -> "fix:f"
    [] name = "g"   -> "fix:g"
    [] name = "for" -> "fix:for"
    [] name = "add" -> "fix:add"

\* trimmed.startsWith('*') and trimmed.startsWith('#'): no line of the table
StartsStar(l) == FALSE
StartsHash(l) == FALSE

\* trimmed.startsWith('//')
StartsSlashSlash(l) == l \in {"cmt", "cmt:secret", "fix:f", "fix:g", "fix:for", "fix:add"}

\* trimmed.startsWith('/*')
StartsSlashStar(l) == l = "doc"

\* trimmed.endsWith('*/')
EndsStarSlash(l) == l = "doc"

\* trimmed.includes('/**')
IncludesDocOpen(l) == l = "doc"

\* the '{' and '}' characters of the line, in order
Braces(l) ==
  CASE l = "func"  -> <<"{">>
    [] l = "func1" -> <<"{", "}">>
    [] l = "close" -> <<"}">>
    [] l = "for"   -> <<"{">>
    [] OTHER       -> <<>>

\* the first of the five function patterns that matches the trimmed line
\* (0: none).  'for (...) {' matches the fifth, /(\w+)\s*\([^)]*\)\s*\{/.
FunctionPattern(l) ==
  CASE l = "func"  -> 1
    [] l = "func1" -> 1
    [] l = "arrow" -> 2
    [] l = "for"   -> 5
    [] OTHER       -> 0

\* match[1] of that pattern
FunctionName(l) ==
  CASE l = "func"  -> "f"
    [] l = "func1" -> "g"
    [] l = "arrow" -> "add"
    [] l = "for"   -> "for"
    [] OTHER       -> ""

\* the secret signatures whose pattern matches the line, in table order:
\* 'apiKey = "AKIA..."' matches /AKIA[0-9A-Z]{16}/ and the API-key pattern
SecretMatches(l) ==
  CASE l = "secret"     -> <<"AWS Access Key", "API Key">>
    [] l = "secret:ex"  -> <<"AWS Access Key">>
    [] l = "cmt:secret" -> <<"AWS Access Key">>
    [] l = "pwd"        -> <<"Password">>
    [] OTHER            -> <<>>

\* matches[0] of the signature's pattern on the line
MatchText(l, signature) ==
  CASE signature = "AWS Access Key" -> "AKIA1234567890123456"
    [] signature = "API Key"        -> "apiKey = \"AKIA1234567890123456\""
    [] signature = "Password"       -> "password: \"supersecretpassword123\""

\* secretPattern.description
Description(signature) ==
  CASE signature = "AWS Access Key" -> "AWS Access Key ID"
    [] signature = "API Key"        -> "API key detected"
    [] signature = "Password"       -> "Hardcoded password"

\* the built-in allow-list tokens contained in the lowercased line
BuiltinAllowTokens(l) == IF l \in {"secret:ex", "cmt:secret"} THEN {"example"} ELSE {}

\* pattern.toLowerCase() of a caller-supplied allow-list entry
ToLowerCase(token) ==
  CASE token = "AKIA" -> "akia"
    [] OTHER          -> token

\* trimmed.includes(token) for the lowercased line and a lowercase token
LineIncludes(l, token) ==
  \/ l \in {"secret", "secret:ex", "cmt:secret"} /\ token = "akia"
  \/ l = "secret" /\ token = "apikey"
  \/ l = "pwd" /\ token = "password"

\* trimmed.includes('//')
IncludesSlashSlash(l) ==
  l \in {"cmt", "cmt:secret", "secret:ex", "fix:f", "fix:g", "fix:for", "fix:add"}

\* the anti-pattern types whose pattern matches the line, with severities
AntiPatterns(l) ==
  IF l = "log" THEN <<[type |-> "console-log", severity |-> "warning"]>> ELSE <<>>

\* line.includes('for (')
IncludesFor(l) == l = "for"

\* the package roots the line's require/import statements name
LineImportNames(l) ==
  CASE l = "req"        -> {"lodash"}
    [] l = "imp:sub"    -> {"lodash/map"}
    [] l = "imp:scoped" -> {"@scope/name/sub"}
    [] l = "req:rel"    -> {"./lodash"}
    [] OTHER            -> {}

\* depName.startsWith('.') || depName.startsWith('/')
IsPathImport(depName) == depName = "./lodash"

\* depName.split('/')[0], with the second segment for a scoped package
RootOf(depName) ==
  CASE depName = "lodash/map"      -> "lodash"
    [] depName = "@scope/name/sub" -> "@scope/name"
    [] OTHER                       -> depName

\* the package roots the line's require/import statements name: the pattern
\* matches within one line only ('.' does not match a line break), so the
\* lines of a wrapped import statement give nothing
LineImports(l) == {RootOf(depName) : depName \in {d \in LineImportNames(l) : ~IsPathImport(d)}}

\* number of bytes of the line, without its newline
LineLength(l) ==
  CASE l = "func"   -> 15
    [] l = "func1"  -> 15
    [] l = "stmt"   -> 11
    [] l = "close"  -> 1
    [] l = "cmt"    -> 7
    [] l = "doc"    -> 11
    [] l = "secret" -> 38
    [] l = "secret:ex" -> 57
    [] l = "cmt:secret" -> 40
    [] l = "pwd"    -> 37
    [] l = "log"    -> 17
    [] l = "for"    -> 31
    [] l = "big"    -> 100001
    [] l = "fix:f"  -> 27
    [] l = "fix:g"  -> 27
    [] l = "fix:for" -> 29
    [] l = "fix:add" -> 29
    [] l = "arrow"  -> 28
    [] l = "imp:sub" -> 29
    [] l = "imp:scoped" -> 34
    [] l = "req:rel" -> 30
    [] l = "imp:open" -> 13
    [] l = "imp:from" -> 25
    [] l = "req"    -> 29

At(lines, i) == lines[i + 1]

\* lines.splice(i, 1, x): the line at i is replaced
Splice_replace(lines, i, x) == SubSeq(lines, 1, i) \o <<x>> \o SubSeq(lines, i + 2, Len(lines))

\* lines.splice(i, 0, x)
Splice(lines, i, x) == SubSeq(lines, 1, i) \o <<x>> \o SubSeq(lines, i + 1, Len(lines))

\* ------------------------------------------------------------ CodeValidator
DefaultMaxFunctionLines == 50

\* one line of _findFunctionEnd's inner loop: the state after the characters
\* k.. of the line, or found = TRUE when the count returned to zero
RECURSIVE ScanBraces(_, _, _, _)
ScanBraces(chars, k, braceCount, inFunction) ==
  IF k > Len(chars) THEN [found |-> FALSE, braceCount |-> braceCount, inFunction |-> inFunction]
  ELSE IF chars[k] = "{" THEN ScanBraces(chars, k + 1, braceCount + 1, TRUE)
  ELSE IF inFunction /\ braceCount - 1 = 0
       THEN [found |-> TRUE, braceCount |-> 0, inFunction |-> TRUE]
       ELSE ScanBraces(chars, k + 1, braceCount - 1, inFunction)

RECURSIVE FindEndFrom(_, _, _, _)
FindEndFrom(lines, i, braceCount, inFunction) ==
  IF i >= Len(lines) THEN Len(lines) - 1
  ELSE LET r == ScanBraces(Braces(At(lines, i)), 1, braceCount, inFunction)
       IN  IF r.found THEN i ELSE FindEndFrom(lines, i + 1, r.braceCount, r.inFunction)

\* the last line of the file, whatever the braces
_findFunctionEnd_lastLine(lines, startLine) == Len(lines) - 1

_findFunctionEnd(lines, startLine) == FindEndFrom(lines, startLine, 0, FALSE)

\* the skip test of _extractFunctions: empty, '//', '/*' or '*' first
SkippedLine(l) == StartsSlashSlash(l) \/ StartsSlashStar(l) \/ StartsStar(l)

RECURSIVE ExtractFrom(_, _)
ExtractFrom(lines, i) ==
  IF i >= Len(lines) THEN <<>>
  ELSE LET l == At(lines, i)
           endLine == _findFunctionEnd(lines, i)
       IN  IF ~SkippedLine(l) /\ FunctionPattern(l) # 0
           THEN <<[name |-> FunctionName(l), startLine |-> i, endLine |-> endLine,
                   lineCount |-> endLine - i + 1]>> \o ExtractFrom(lines, i + 1)
           ELSE ExtractFrom(lines, i + 1)

\* the loop started at the second line
_extractFunctions_fromSecond(lines) == ExtractFrom(lines, 1)

_extractFunctions(lines) == ExtractFrom(lines, 0)

_hasInlineComment(lines, functionLine) ==
  \/ /\ functionLine > 0
     /\ LET prevLine == At(lines, functionLine - 1)
        IN  StartsSlashSlash(prevLine) \/ StartsSlashStar(prevLine) \/ EndsStarSlash(prevLine)
  \/ /\ functionLine > 1
     /\ LET prevLine2 == At(lines, functionLine - 2)
        IN  StartsSlashStar(prevLine2) \/ IncludesDocOpen(prevLine2)

\* an issue record: text holds the part of the message that varies with
\* the finding, secretType is set by the secret scanner only
Issue(file, line, type, severity) ==
  [file |-> file, line |-> line, type |-> type, severity |-> severity, text |-> "",
   secretType |-> "undefined"]

\* the for-loop of _validateFile over the extracted functions; st carries the
\* lines array (spliced in place by auto-fix), the issues, the fixed entries
\* and the three counters
RECURSIVE ValidateFunctions(_, _, _, _, _, _)
ValidateFunctions(functions, k, st, filePath, autoFix, config) ==
  IF k > Len(functions) THEN st
  ELSE
    LET func == functions[k]
        hasComment == _hasInlineComment(st.lines, func.startLine)
        missing == ~hasComment /\ config.enforceComments
        issue == Issue(filePath, func.startLine + 1, "missing-comment", "warning")
        long == func.lineCount > config.maxFunctionLines
        st1 == [st EXCEPT
                 !.commentedFunctions = IF hasComment THEN @ + 1 ELSE @,
                 !.lines = IF missing /\ autoFix THEN Splice(@, func.startLine, Placeholder(func.name)) ELSE @,
                 !.fixed = IF missing /\ autoFix THEN Append(@, issue) ELSE @,
                 !.issues = IF missing /\ ~autoFix THEN Append(@, issue) ELSE @]
        st2 == [st1 EXCEPT
                 !.longFunctions = IF long THEN @ + 1 ELSE @,
                 !.issues = IF long
                            THEN Append(@, Issue(filePath, func.startLine + 1,
                                                 "long-function", "warning"))
                            ELSE @]
    IN  ValidateFunctions(functions, k + 1, st2, filePath, autoFix, config)

\* the autoFix argument ignored: every missing comment is fixed and written
_validateFile_alwaysFix(filePath, content, autoFix, config) ==
  LET FileResults(functions, st) ==
        [issues |-> st.issues, fixed |-> st.fixed,
         totalFunctions |-> Len(functions),
         commentedFunctions |-> st.commentedFunctions,
         longFunctions |-> st.longFunctions,
         written |-> IF Len(st.fixed) > 0 THEN st.lines ELSE content]
      Validated(functions) ==
        FileResults(functions,
          ValidateFunctions(functions, 1,
            [lines |-> content, issues |-> <<>>, fixed |-> <<>>,
             commentedFunctions |-> 0, longFunctions |-> 0],
            filePath, TRUE, config))
  IN  Validated(_extractFunctions(content))

\* _validateFile: the per-file result and the lines the file holds afterwards
\* (written back only when autoFix is on and something was fixed)
_validateFile(filePath, content, autoFix, config) ==
  LET FileResults(functions, st) ==
        [issues |-> st.issues, fixed |-> st.fixed,
         totalFunctions |-> Len(functions),
         commentedFunctions |-> st.commentedFunctions,
         longFunctions |-> st.longFunctions,
         written |-> IF autoFix /\ Len(st.fixed) > 0 THEN st.lines ELSE content]
      Validated(functions) ==
        FileResults(functions,
          ValidateFunctions(functions, 1,
            [lines |-> content, issues |-> <<>>, fixed |-> <<>>,
             commentedFunctions |-> 0, longFunctions |-> 0],
            filePath, autoFix, config))
  IN  Validated(_extractFunctions(content))

\* Math.round(num / den) for den > 0: the nearest integer, halves upwards
Round(num, den) == (2 * num + den) \div (2 * den)

Max(a, b) == IF a >= b THEN a ELSE b
Min(a, b) == IF a <= b THEN a ELSE b

\* Math.floor in place of Math.round
_calculateScore_floor(metrics) ==
  IF metrics.totalFunctions = 0 THEN 100
  ELSE Max(0, Min(100,
         (80 * metrics.commentedFunctions + 20 * metrics.totalFunctions
            - 20 * metrics.longFunctions) \div metrics.totalFunctions))

\* the score is computed in floating point; the quotient is kept exact here
_calculateScore(metrics) ==
  IF metrics.totalFunctions = 0 THEN 100
  ELSE Max(0, Min(100,
         Round(80 * metrics.commentedFunctions + 20 * metrics.totalFunctions
                 - 20 * metrics.longFunctions,
               metrics.totalFunctions)))


\* ------------------------------------------------------------- file system
\* the paths a project may hold, in the order glob.sync returns them
PathSeq == <<"src/a.js", "src/app.config.js", "src/b.js", "test/a.test.js">>
Paths == {PathSeq[i] : i \in 1..Len(PathSeq)}

\* minimatch of a path against an include pattern
GlobMatches(pattern, path) ==
  CASE pattern = "**/*.js"        -> path \in Paths
    [] pattern = "**/*.config.js" -> path = "src/app.config.js"
    [] OTHER                      -> FALSE

\* the segments of a path below the project directory
Split(path) ==
  CASE path = "src/a.js"          -> <<"src", "a.js">>
    [] path = "src/app.config.js" -> <<"src", "app.config.js">>
    [] path = "src/b.js"          -> <<"src", "b.js">>
    [] path = "test/a.test.js"    -> <<"test", "a.test.js">>

\* normalizedPath.split('/') of a path glob returned: glob is given
\* path.join(projectPath, pattern), so the segments of the project directory
\* come first
PathParts(path) == projectPath \o Split(path)

\* glob.sync(pattern) over the files that exist: a missing root has none
RECURSIVE GlobFrom(_, _, _)
GlobFrom(files, pattern, i) ==
  IF i > Len(PathSeq) THEN <<>>
  ELSE (IF files[PathSeq[i]].exists /\ GlobMatches(pattern, PathSeq[i])
        THEN <<PathSeq[i]>> ELSE <<>>) \o GlobFrom(files, pattern, i + 1)

\* files.push(...glob.sync(pattern)) for each pattern in turn
RECURSIVE FindFiles(_, _, _)
FindFiles(files, patterns, k) ==
  IF k > Len(patterns) THEN <<>>
  ELSE GlobFrom(files, patterns[k], 1) \o FindFiles(files, patterns, k + 1)

_findCodeFiles(files) ==
  FindFiles(files, <<"**/*.js", "**/*.jsx", "**/*.ts", "**/*.tsx">>, 1)

\* stats.size: the lines joined by '\n'
RECURSIVE SumLengths(_, _)
SumLengths(lines, i) ==
  IF i > Len(lines) THEN 0 ELSE LineLength(lines[i]) + SumLengths(lines, i + 1)

FileSize(lines) == IF Len(lines) = 0 THEN 0 ELSE SumLengths(lines, 1) + Len(lines) - 1

\* what a validator returns from its catch block: score 0 and one issue that
\* is a plain string (it has no file, line, type or severity property)
StringIssue(text) ==
  [file |-> "undefined", line |-> 0, type |-> "undefined", severity |-> "undefined",
   text |-> text, secretType |-> "undefined"]

\* (the returned object has no metrics property: error = TRUE marks the
\* metrics field as absent)
FailedResult(text, absentMetrics) ==
  [score |-> 0, issues |-> <<StringIssue(text)>>, fixed |-> <<>>, error |-> TRUE,
   metrics |-> absentMetrics]

\* the for-loop of CodeValidator.validate over the files: readFile throws on
\* an unreadable file, after the files before it were validated and written
RECURSIVE ValidateFiles(_, _, _, _, _)
ValidateFiles(found, k, st, autoFix, config) ==
  IF k > Len(found) \/ st.error THEN st
  ELSE
    LET file == found[k]
    IN  IF ~st.files[file].readable THEN [st EXCEPT !.error = TRUE]
        ELSE
          LET Added(fileResults) ==
                [files |-> [st.files EXCEPT ![file].lines = fileResults.written],
                 error |-> FALSE,
                 issues |-> st.issues \o fileResults.issues,
                 fixed |-> st.fixed \o fileResults.fixed,
                 totalFunctions |-> st.totalFunctions + fileResults.totalFunctions,
                 commentedFunctions |-> st.commentedFunctions + fileResults.commentedFunctions,
                 longFunctions |-> st.longFunctions + fileResults.longFunctions]
          IN  ValidateFiles(found, k + 1,
                Added(_validateFile(file, st.files[file].lines, autoFix, config)),
                autoFix, config)

\* the caller's autoFix not passed on: the validator always runs with autoFix
CodeValidate_forceFix(files, autoFix, config) ==
  LET Results(st) ==
        LET metrics == [totalFunctions |-> st.totalFunctions,
                        commentedFunctions |-> st.commentedFunctions,
                        longFunctions |-> st.longFunctions]
        IN  [files |-> st.files,
             result |-> IF st.error
                        THEN FailedResult("Code validation failed",
                               [totalFunctions |-> 0, commentedFunctions |-> 0,
                                longFunctions |-> 0])
                        ELSE [score |-> _calculateScore(metrics), issues |-> st.issues,
                              fixed |-> st.fixed, error |-> FALSE, metrics |-> metrics]]
  IN  Results(ValidateFiles(_findCodeFiles(files), 1,
                [files |-> files, error |-> FALSE, issues |-> <<>>, fixed |-> <<>>,
                 totalFunctions |-> 0, commentedFunctions |-> 0, longFunctions |-> 0],
                TRUE, config))

\* CodeValidator.validate: its result and the files it leaves on disk
CodeValidate(files, autoFix, config) ==
  LET Results(st) ==
        LET metrics == [totalFunctions |-> st.totalFunctions,
                        commentedFunctions |-> st.commentedFunctions,
                        longFunctions |-> st.longFunctions]
        IN  [files |-> st.files,
             result |-> IF st.error
                        THEN FailedResult("Code validation failed",
                               [totalFunctions |-> 0, commentedFunctions |-> 0,
                                longFunctions |-> 0])
                        ELSE [score |-> _calculateScore(metrics), issues |-> st.issues,
                              fixed |-> st.fixed, error |-> FALSE, metrics |-> metrics]]
  IN  Results(ValidateFiles(_findCodeFiles(files), 1,
                [files |-> files, error |-> FALSE, issues |-> <<>>, fixed |-> <<>>,
                 totalFunctions |-> 0, commentedFunctions |-> 0, longFunctions |-> 0],
                autoFix, config))


\* -------------------------------------------------------- SecurityValidator
_findFilesToScan(files) ==
  FindFiles(files, <<"**/*.js", "**/*.jsx", "**/*.ts", "**/*.tsx", "**/*.json", "**/*.yaml",
                     "**/*.yml", "**/*.env*", "**/*.config.js", "**/.*rc">>, 1)

_isCommentLine(l) ==
  StartsSlashSlash(l) \/ StartsSlashStar(l) \/ StartsStar(l) \/ StartsHash(l)

\* fileName.includes('.test.') || fileName.includes('.spec.')
IncludesTestMark(fileName) == fileName \in {"a.test.js", "a.spec.ts"}

TestDirs == {"test", "tests", "__tests__"}

\* pathParts.indexOf('fixtures'), 0-based, from position k on
RECURSIVE IndexOfFixtures(_, _)
IndexOfFixtures(pathParts, k) ==
  IF pathParts[k] = "fixtures" THEN k - 1 ELSE IndexOfFixtures(pathParts, k + 1)

_isTestFile(pathParts) ==
  LET Inside(fixturesIndex) ==
        IF fixturesIndex < Len(pathParts) - 1
        THEN \E k \in fixturesIndex + 3..Len(pathParts) : pathParts[k] \in TestDirs
        ELSE \E k \in 1..Len(pathParts) : pathParts[k] \in TestDirs
  IN  IF IncludesTestMark(pathParts[Len(pathParts)]) THEN TRUE
      ELSE IF \E k \in 1..Len(pathParts) : pathParts[k] = "fixtures"
           THEN Inside(IndexOfFixtures(pathParts, 1))
      ELSE \E k \in 1..Len(pathParts) : pathParts[k] \in TestDirs

\* an entry of config.allowedSecretPatterns that is not a string
NonString == "#123"

\* allowedPatterns.some(...) from entry k on: "allowed", "not", or "throws"
\* when pattern.toLowerCase is called on an entry that is not a string
RECURSIVE AllowedFrom(_, _, _)
AllowedFrom(l, extra, k) ==
  IF k > Len(extra) THEN "not"
  ELSE IF IncludesSlashSlash(l) /\ BuiltinAllowTokens(l) \cap {"example", "placeholder"} # {}
       THEN "allowed"
  ELSE IF extra[k] = NonString THEN "throws"
  ELSE IF LineIncludes(l, ToLowerCase(extra[k])) THEN "allowed"
  ELSE AllowedFrom(l, extra, k + 1)

\* the ten built-in tokens are tried before the caller's entries
_isAllowedSecret(l, config) ==
  IF BuiltinAllowTokens(l) # {} THEN "allowed"
  ELSE AllowedFrom(l, config.allowedSecretPatterns, 1)

\* str.substring(0, n)
Substring(str, n) == SubSeq(str, 1, Min(n, Len(str)))

\* the issue pushed for one signature matching one line
SecretIssue(filePath, lineNumber, l, signature) ==
  [file |-> filePath, line |-> lineNumber, type |-> "hardcoded-secret", severity |-> "high",
   text |-> Description(signature) \o ": " \o Substring(MatchText(l, signature), 20) \o "...",
   secretType |-> signature]

\* the loop over this.secretPatterns for one line
RECURSIVE ScanPatterns(_, _, _, _, _, _)
ScanPatterns(filePath, l, lineNumber, matches, k, config) ==
  IF k > Len(matches) THEN [throws |-> FALSE, issues |-> <<>>]
  ELSE
    LET allowed == _isAllowedSecret(l, config)
        rest == ScanPatterns(filePath, l, lineNumber, matches, k + 1, config)
    IN  IF allowed = "throws" THEN [throws |-> TRUE, issues |-> <<>>]
        ELSE IF allowed = "allowed" THEN rest
        ELSE [throws |-> rest.throws,
              issues |-> <<SecretIssue(filePath, lineNumber, l, matches[k])>> \o rest.issues]

RECURSIVE ScanLines(_, _, _, _)
ScanLines(filePath, lines, lineIndex, config) ==
  IF lineIndex >= Len(lines) THEN [throws |-> FALSE, issues |-> <<>>]
  ELSE
    LET l == At(lines, lineIndex)
        rest == ScanLines(filePath, lines, lineIndex + 1, config)
    IN  IF _isCommentLine(l) \/ _isTestFile(PathParts(filePath)) THEN rest
        ELSE LET here == ScanPatterns(filePath, l, lineIndex + 1, SecretMatches(l), 1, config)
             IN  IF here.throws THEN here
                 ELSE [throws |-> rest.throws, issues |-> here.issues \o rest.issues]

_scanFileForSecrets(filePath, content, config) == ScanLines(filePath, content, 0, config)

\* _scanSecrets: a file whose read or scan throws is skipped by the inner catch
RECURSIVE ScanSecretFiles(_, _, _, _)
ScanSecretFiles(files, found, k, config) ==
  IF k > Len(found) THEN <<>>
  ELSE
    LET file == found[k]
        fileIssues == _scanFileForSecrets(file, files[file].lines, config)
        rest == ScanSecretFiles(files, found, k + 1, config)
    IN  IF ~files[file].readable \/ fileIssues.throws THEN rest
        ELSE fileIssues.issues \o rest

_scanSecrets(files, config) ==
  LET Results(found, issues) ==
        [issues |-> issues, secretsFound |-> Len(issues), filesScanned |-> Len(found)]
      Scanned(found) == Results(found, ScanSecretFiles(files, found, 1, config))
  IN  Scanned(_findFilesToScan(files))


\* the vulnerabilities object of the audit JSON: one severity per package
RECURSIVE VulnerabilityIssues(_, _)
VulnerabilityIssues(vulns, k) ==
  IF k > Len(vulns) THEN <<>>
  ELSE <<Issue("package.json", 1, "vulnerability", vulns[k])>>
         \o VulnerabilityIssues(vulns, k + 1)

\* a failed audit command taken as an audit that reported nothing
_scanVulnerabilities_exitOnly(pkg, audit) ==
  IF pkg.exists /\ audit.exit = 0 /\ audit.parses
  THEN [issues |-> VulnerabilityIssues(audit.vulns, 1),
        vulnerabilities |-> Len(audit.vulns), dependencyIssues |-> 0]
  ELSE [issues |-> <<>>, vulnerabilities |-> 0, dependencyIssues |-> 0]

\* _scanVulnerabilities.  pkg is package.json, audit what 'npm audit --json'
\* does: its exit status, whether its output parses, and the packages listed
_scanVulnerabilities(pkg, audit) ==
  IF ~pkg.exists THEN [issues |-> <<>>, vulnerabilities |-> 0, dependencyIssues |-> 0]
  ELSE IF audit.exit = 0 /\ audit.parses
       THEN [issues |-> VulnerabilityIssues(audit.vulns, 1),
             vulnerabilities |-> Len(audit.vulns), dependencyIssues |-> 0]
  ELSE IF audit.exit # 0 /\ audit.parses
       THEN [issues |-> <<>>, vulnerabilities |-> Len(audit.vulns),
             dependencyIssues |-> Len(audit.vulns)]
  ELSE [issues |-> <<>>, vulnerabilities |-> 0, dependencyIssues |-> 0]

\* the deductions without the final Math.max(0, score)
_calculateSecurityScore_unclamped(metrics) ==
  100 - metrics.secretsFound * 15 - metrics.vulnerabilities * 10

_calculateSecurityScore(metrics) ==
  Max(0, 100 - metrics.secretsFound * 15 - metrics.vulnerabilities * 10)

\* SecurityValidator.validate: nothing it calls throws past the inner catch
\* blocks, and it writes no file
SecurityValidate(files, pkg, audit, config) ==
  LET Results(secretResults, vulnResults) ==
        LET metrics == [filesScanned |-> secretResults.filesScanned,
                        secretsFound |-> secretResults.secretsFound,
                        vulnerabilities |-> vulnResults.vulnerabilities,
                        dependencyIssues |-> vulnResults.dependencyIssues]
        IN  [score |-> _calculateSecurityScore(metrics),
             issues |-> secretResults.issues \o vulnResults.issues,
             fixed |-> <<>>, error |-> FALSE, metrics |-> metrics]
  IN  Results(IF config.scanSecrets THEN _scanSecrets(files, config)
              ELSE [issues |-> <<>>, secretsFound |-> 0, filesScanned |-> 0],
              IF config.vulnerabilityScan THEN _scanVulnerabilities(pkg, audit)
              ELSE [issues |-> <<>>, vulnerabilities |-> 0, dependencyIssues |-> 0])

\* ----------------------------------------------------- PerformanceValidator
LargeFileBytes == 100000
DefaultBundleBytes == 500000

\* the match of /^(\d+(?:\.\d+)?)\s*([KMGT]?B)$/i on a configured size
SizeMatch(sizeStr) ==
  CASE sizeStr = "500KB" -> [ok |-> TRUE, value |-> 500, unit |-> "KB"]
    [] sizeStr = "50KB"  -> [ok |-> TRUE, value |-> 50, unit |-> "KB"]
    [] sizeStr = "150KB" -> [ok |-> TRUE, value |-> 150, unit |-> "KB"]
    [] sizeStr = "100B"  -> [ok |-> TRUE, value |-> 100, unit |-> "B"]
    [] sizeStr = "500 KB" -> [ok |-> TRUE, value |-> 500, unit |-> "KB"]
    [] sizeStr = "500kb" -> [ok |-> TRUE, value |-> 500, unit |-> "KB"]
    [] sizeStr = "2MB"   -> [ok |-> TRUE, value |-> 2, unit |-> "MB"]
    [] sizeStr = "1TB"   -> [ok |-> TRUE, value |-> 1, unit |-> "TB"]
    [] OTHER             -> [ok |-> FALSE, value |-> 0, unit |-> ""]

\* units[unit] || 1
SizeUnit(unit) ==
  CASE unit = "B"  -> 1
    [] unit = "KB" -> 1024
    [] unit = "MB" -> 1024 * 1024
    [] unit = "GB" -> 1024 * 1024 * 1024
    [] OTHER       -> 1

_parseSize(sizeStr) ==
  LET match == SizeMatch(sizeStr)
  IN  IF ~match.ok THEN DefaultBundleBytes ELSE match.value * SizeUnit(match.unit)

DefaultLoadTimeMs == 2000

\* the match of /^(\d+(?:\.\d+)?)\s*(ms|s|m)$/i on a configured time, its unit
\* in lower case
TimeMatch(timeStr) ==
  CASE timeStr = "2s"    -> [ok |-> TRUE, value |-> 2, unit |-> "s"]
    [] timeStr = "500ms" -> [ok |-> TRUE, value |-> 500, unit |-> "ms"]
    [] timeStr = "1m"    -> [ok |-> TRUE, value |-> 1, unit |-> "m"]
    [] timeStr = "3 S"   -> [ok |-> TRUE, value |-> 3, unit |-> "s"]
    [] OTHER             -> [ok |-> FALSE, value |-> 0, unit |-> ""]

\* units[unit] || 1
TimeUnit(unit) ==
  CASE unit = "ms" -> 1
    [] unit = "s"  -> 1000
    [] unit = "m"  -> 60000
    [] OTHER       -> 1

_parseTime(timeStr) ==
  LET match == TimeMatch(timeStr)
  IN  IF ~match.ok THEN DefaultLoadTimeMs ELSE match.value * TimeUnit(match.unit)

\* configured values that are not strings: the number 123 and null
NonStrings == {NonString, "#null"}

\* this.limits of the constructor: sizeStr.match and timeStr.match are
\* TypeErrors on a value that is not a string, and the constructor throws
PerformanceValidatorLimits(config) ==
  IF \E key \in {"bundleSize", "loadTime", "apiResponseTime"} : config[key] \in NonStrings
  THEN [threw |-> TRUE, bundleSize |-> 0, loadTime |-> 0, apiResponseTime |-> 0]
  ELSE [threw |-> FALSE,
        bundleSize |-> _parseSize(config.bundleSize),
        loadTime |-> _parseTime(config.loadTime),
        apiResponseTime |-> _parseTime(config.apiResponseTime)]

_findBundleFiles(files) ==
  FindFiles(files, <<"**/*.js", "**/*.jsx", "**/*.ts", "**/*.tsx", "**/*.css", "**/*.scss",
                     "**/*.sass">>, 1)

RECURSIVE LargeFileIssues(_, _, _)
LargeFileIssues(files, found, k) ==
  IF k > Len(found) THEN <<>>
  ELSE (IF FileSize(files[found[k]].lines) > LargeFileBytes
        THEN <<Issue(found[k], 1, "large-file", "warning")>> ELSE <<>>)
       \o LargeFileIssues(files, found, k + 1)

\* the size of the first file only
TotalSize_first(files, found, k) ==
  IF k > Len(found) THEN 0 ELSE FileSize(files[found[k]].lines)

RECURSIVE TotalSize(_, _, _)
TotalSize(files, found, k) ==
  IF k > Len(found) THEN 0
  ELSE FileSize(files[found[k]].lines) + TotalSize(files, found, k + 1)

_checkBundleSize(files, limit) ==
  LET Results(found, large, totalSize) ==
        [issues |-> large \o (IF totalSize > limit
                              THEN <<Issue("package.json", 1, "bundle-size", "high")>>
                              ELSE <<>>),
         bundleSize |-> totalSize, totalFiles |-> Len(found), largeFiles |-> Len(large)]
      Measured(found) ==
        Results(found, LargeFileIssues(files, found, 1), TotalSize(files, found, 1))
  IN  Measured(_findBundleFiles(files))

RECURSIVE UnusedIssues(_, _, _)
UnusedIssues(deps, used, k) ==
  IF k > Len(deps) THEN <<>>
  ELSE (IF deps[k] \notin used
        THEN <<[Issue("package.json", 1, "unused-dependency", "warning")
                  EXCEPT !.text = deps[k]]>>
        ELSE <<>>)
       \o UnusedIssues(deps, used, k + 1)

\* the used-set: the package roots of every require/import of every file
UsedDependencies(files, found) ==
  UNION {UNION {LineImports(files[found[k]].lines[i]) : i \in 1..Len(files[found[k]].lines)} :
           k \in 1..Len(found)}

\* _checkUnusedDependencies: any exception (the manifest does not parse, a
\* file cannot be read) is swallowed and leaves the result empty
_checkUnusedDependencies(files, pkg) ==
  LET found == _findBundleFiles(files)
  IN  IF ~pkg.exists \/ ~pkg.parses \/ \E k \in 1..Len(found) : ~files[found[k]].readable
      THEN <<>>
      ELSE UnusedIssues(pkg.deps, UsedDependencies(files, found), 1)

RECURSIVE AntiPatternIssues(_, _, _, _)
AntiPatternIssues(filePath, lineNumber, hits, k) ==
  IF k > Len(hits) THEN <<>>
  ELSE <<Issue(filePath, lineNumber, hits[k].type, hits[k].severity)>>
         \o AntiPatternIssues(filePath, lineNumber, hits, k + 1)

_checkLineForPerformanceIssues(l, filePath, lineNumber) ==
  AntiPatternIssues(filePath, lineNumber, AntiPatterns(l), 1)

NestedLoopLookahead == 10

\* _checkNestedLoop from line i on: the issue's line number, or 0 for null
RECURSIVE NestedLoopFrom(_, _, _, _, _)
NestedLoopFrom(lines, startLineIndex, i, braceCount, foundOpenBrace) ==
  IF i >= Min(Len(lines), startLineIndex + NestedLoopLookahead) THEN 0
  ELSE
    LET r == ScanBraces(Braces(At(lines, i)), 1, braceCount, foundOpenBrace)
    IN  IF r.found THEN 0
        ELSE IF r.inFunction /\ r.braceCount > 0 /\ IncludesFor(At(lines, i)) THEN i + 1
        ELSE NestedLoopFrom(lines, startLineIndex, i + 1, r.braceCount, r.inFunction)

_checkNestedLoop(lines, startLineIndex) ==
  NestedLoopFrom(lines, startLineIndex, startLineIndex, 0, FALSE)

RECURSIVE PerformanceLines(_, _, _)
PerformanceLines(filePath, lines, i) ==
  IF i >= Len(lines) THEN <<>>
  ELSE
    LET l == At(lines, i)
        nested == IF IncludesFor(l) THEN _checkNestedLoop(lines, i) ELSE 0
    IN  _checkLineForPerformanceIssues(l, filePath, i + 1)
          \o (IF nested # 0 THEN <<Issue(filePath, nested, "nested-loop", "info")>> ELSE <<>>)
          \o PerformanceLines(filePath, lines, i + 1)

RECURSIVE PerformanceFiles(_, _, _)
PerformanceFiles(files, found, k) ==
  IF k > Len(found) THEN <<>>
  ELSE PerformanceLines(found[k], files[found[k]].lines, 0)
         \o PerformanceFiles(files, found, k + 1)

\* _checkCodePerformance: readFile is not guarded here, so an unreadable file
\* throws out of the scan
_checkCodePerformance(files) ==
  LET found == _findBundleFiles(files)
  IN  [throws |-> \E k \in 1..Len(found) : ~files[found[k]].readable,
       issues |-> IF \E k \in 1..Len(found) : ~files[found[k]].readable THEN <<>>
                  ELSE PerformanceFiles(files, found, 1)]

\* the deductions for large files, unused dependencies and performance
\* issues without their caps
_calculatePerformanceScore_uncapped(metrics, limit) ==
  LET rest == 100 - metrics.largeFiles * 5 - metrics.unusedDependencies * 2
                  - metrics.performanceIssues * 2
      over == metrics.bundleSize - limit
  IN  IF metrics.bundleSize <= limit THEN Max(0, rest)
      ELSE IF limit = 0 \/ 20 * over >= 30 * limit THEN Max(0, rest - 30)
      ELSE Max(0, Round(rest * limit - 20 * over, limit))

\* score = 100 - min(30, (bundleSize/limit - 1) * 20) - the three capped
\* integer deductions, then Math.max(0, Math.round(score)); the fraction is
\* kept exact as a quotient by limit
_calculatePerformanceScore(metrics, limit) ==
  LET rest == 100 - Min(20, metrics.largeFiles * 5)
                  - Min(15, metrics.unusedDependencies * 2)
                  - Min(25, metrics.performanceIssues * 2)
      over == metrics.bundleSize - limit
  IN  IF metrics.bundleSize <= limit THEN Max(0, rest)
      ELSE IF limit = 0 \/ 20 * over >= 30 * limit THEN Max(0, rest - 30)
      ELSE Max(0, Round(rest * limit - 20 * over, limit))

\* PerformanceValidator.validate: it writes no file
PerformanceValidate(files, pkg, config) ==
  LET Results(limit, bundleResults, depResults, codeResults) ==
        LET metrics == [bundleSize |-> bundleResults.bundleSize,
                        totalFiles |-> bundleResults.totalFiles,
                        largeFiles |-> bundleResults.largeFiles,
                        unusedDependencies |-> Len(depResults),
                        performanceIssues |-> Len(codeResults.issues)]
        IN  IF codeResults.throws
            THEN FailedResult("Performance validation failed",
                   [bundleSize |-> 0, totalFiles |-> 0, largeFiles |-> 0,
                    unusedDependencies |-> 0, performanceIssues |-> 0])
            ELSE [score |-> _calculatePerformanceScore(metrics, limit),
                  issues |-> bundleResults.issues \o depResults \o codeResults.issues,
                  fixed |-> <<>>, error |-> FALSE, metrics |-> metrics]
      Checked(limit) ==
        Results(limit, _checkBundleSize(files, limit), _checkUnusedDependencies(files, pkg),
                _checkCodePerformance(files))
  IN  Checked(_parseSize(config.bundleSize))


\* ------------------------------------------------------------ orchestrators
\* --------------------------------------------------- MaintenanceValidator
RequiredDocs == <<"dependencies.md", "sdk-map.md">>

RECURSIVE MissingDocIssues(_, _)
MissingDocIssues(docs, k) ==
  IF k > Len(RequiredDocs) THEN <<>>
  ELSE (IF RequiredDocs[k] \notin docs
        THEN <<Issue(RequiredDocs[k], 0, "missing_file", "error")>> ELSE <<>>)
       \o MissingDocIssues(docs, k + 1)

\* MaintenanceValidator.validate: one issue per required document missing
\* from the working directory; the result has no score and no fixed property
MaintenanceValidate(docs) ==
  [issues |-> MissingDocIssues(docs, 1), fixed |-> <<>>, error |-> FALSE]

\* one validator call: its result (score 0 stands for
\* 'validationResult.score || 0' when the result has no score; error marks
\* the result of a catch block, which has no metrics), and the files left on
\* disk
RunValidator(standard, files, pkg, audit, docs, config, autoFix) ==
  LET Run(left, result) ==
        [files |-> left,
         run |-> [standard |-> standard,
                  score |-> IF standard = "maintenance" THEN 0 ELSE result.score,
                  issues |-> result.issues,
                  fixed |-> result.fixed,
                  error |-> result.error,
                  metrics |-> IF standard = "maintenance" THEN <<>> ELSE result.metrics]]
      RunCode(code) == Run(code.files, code.result)
  IN  CASE standard = "code"        -> RunCode(CodeValidate(files, autoFix, config))
        [] standard = "security"    -> Run(files, SecurityValidate(files, pkg, audit, config))
        [] standard = "performance" -> Run(files, PerformanceValidate(files, pkg, config))
        [] standard = "maintenance" -> Run(files, MaintenanceValidate(docs))

\* the validators of `order` called one after the other (each call awaited)
RECURSIVE RunAll(_, _, _, _, _, _, _, _)
RunAll(order, k, files, pkg, audit, docs, config, autoFix) ==
  IF k > Len(order) THEN [files |-> files, runs |-> <<>>]
  ELSE LET Both(first, rest) == [files |-> rest.files, runs |-> <<first.run>> \o rest.runs]
           Then(first) ==
             Both(first, RunAll(order, k + 1, first.files, pkg, audit, docs, config, autoFix))
       IN  Then(RunValidator(order[k], files, pkg, audit, docs, config, autoFix))

RECURSIVE AllIssues(_, _)
AllIssues(runs, k) ==
  IF k > Len(runs) THEN <<>> ELSE runs[k].issues \o AllIssues(runs, k + 1)

RECURSIVE AllFixed(_, _)
AllFixed(runs, k) ==
  IF k > Len(runs) THEN <<>> ELSE runs[k].fixed \o AllFixed(runs, k + 1)

RECURSIVE SumScores(_, _)
SumScores(runs, k) ==
  IF k > Len(runs) THEN 0 ELSE runs[k].score + SumScores(runs, k + 1)

\* the standards of `order` for which keep(s) holds, in the order of `order`
RECURSIVE Filter(_, _, _)
Filter(order, keep, k) ==
  IF k > Len(order) THEN <<>>
  ELSE (IF order[k] \in keep THEN <<order[k]>> ELSE <<>>) \o Filter(order, keep, k + 1)

Range(seq) == {seq[i] : i \in 1..Len(seq)}

\* BestPracticesSDK.validate: three if-blocks in the order code, security,
\* performance.  overallScore is the quotient num/den, not rounded (den = 0
\* is the NaN of 0/0).  raised tells whether the call threw instead of
\* returning: the body is one try block whose catch returns an object, and
\* no validator throws, so it never does.
BestPracticesValidate(files, pkg, audit, docs, config, standards, autoFix) ==
  LET order == Filter(<<"code", "security", "performance">>, Range(standards), 1)
      Results(all, issues) ==
        [files |-> all.files,
         report |-> [api |-> "BestPracticesSDK", standards |-> standards, autoFix |-> autoFix,
                     raised |-> FALSE,
                     passed |-> Len(issues) = 0,
                     issues |-> issues,
                     fixed |-> AllFixed(all.runs, 1),
                     runs |-> all.runs,
                     overallScore |-> [num |-> SumScores(all.runs, 1), den |-> Len(all.runs)]]]
      Merged(all) == Results(all, AllIssues(all.runs, 1))
  IN  Merged(RunAll(order, 1, files, pkg, audit, docs, config, autoFix))

\* CodeDirectivesSDK.validate: a loop over the requested standards that have
\* a validator; the score is rounded, and 0 when no validator ran
CodeDirectivesValidate(files, pkg, audit, docs, config, standards, autoFix) ==
  LET order == Filter(standards, {"code", "security", "performance", "maintenance"}, 1)
      Results(all, issues) ==
        [files |-> all.files,
         report |-> [api |-> "CodeDirectivesSDK", standards |-> standards, autoFix |-> autoFix,
                     raised |-> FALSE,
                     passed |-> Len(issues) = 0,
                     issues |-> issues,
                     fixed |-> AllFixed(all.runs, 1),
                     runs |-> all.runs,
                     overallScore |-> [num |-> IF Len(all.runs) > 0
                                               THEN Round(SumScores(all.runs, 1), Len(all.runs))
                                               ELSE 0,
                                       den |-> 1]]]
      Merged(all) == Results(all, AllIssues(all.runs, 1))
  IN  Merged(RunAll(order, 1, files, pkg, audit, docs, config, autoFix))

\* ---------------------------------------------------- project configuration
\* { ...defaults, ...config }: the own keys of config over those of defaults.
\* An object is a function from its keys; <<>> is the object {}.
Spread(defaults, config) ==
  [k \in DOMAIN defaults \cup DOMAIN config |->
     IF k \in DOMAIN config THEN config[k] ELSE defaults[k]]

\* this.config of a CodeValidator
CodeValidatorConfig(config) ==
  Spread([enforceComments |-> TRUE, maxFunctionLines |-> DefaultMaxFunctionLines,
          testCoverage |-> 80], config)

\* this.config of a SecurityValidator
SecurityValidatorConfig(config) ==
  Spread([scanSecrets |-> TRUE, vulnerabilityScan |-> TRUE, allowedSecretPatterns |-> <<>>],
         config)

\* this.config of a PerformanceValidator
PerformanceValidatorConfig(config) ==
  Spread([bundleSize |-> "500KB", loadTime |-> "2s", apiResponseTime |-> "500ms"], config)

\* new BestPracticesSDK(config): each validator is constructed with the whole
\* object
BestPracticesSDKConfigs(config) ==
  [code |-> CodeValidatorConfig(config),
   security |-> SecurityValidatorConfig(config),
   performance |-> PerformanceValidatorConfig(config)]

\* loadProjectConfig: the first configuration file that exists and parses. A
\* .yml file gives its content, a .json file its bestPractices or bp member
\* or {}, and no file gives the built-in object.
loadProjectConfig(project) ==
  CASE project.file = ".bp-config.yml" /\ project.parses -> project.content
    [] project.file \in {".bp-config.json", "package.json"} /\ project.parses ->
         IF "bestPractices" \in DOMAIN project.content THEN project.content.bestPractices
         ELSE IF "bp" \in DOMAIN project.content THEN project.content.bp
         ELSE <<>>
    [] OTHER ->
         [code |-> [enforceComments |-> TRUE, maxFunctionLines |-> 50, testCoverage |-> 80],
          security |-> [scanSecrets |-> TRUE, vulnerabilityScan |-> TRUE],
          performance |-> [bundleSize |-> "500KB", loadTime |-> "2s"]]

\* the settings the validators of an SDK read while they scan
ValidatorSettings(configs) ==
  [enforceComments |-> configs.code.enforceComments,
   maxFunctionLines |-> configs.code.maxFunctionLines,
   scanSecrets |-> configs.security.scanSecrets,
   vulnerabilityScan |-> configs.security.vulnerabilityScan,
   allowedSecretPatterns |-> configs.security.allowedSecretPatterns,
   bundleSize |-> configs.performance.bundleSize]

\* the configuration of 'new CodeValidator()', 'new SecurityValidator()' and
\* 'new PerformanceValidator()'
DefaultConfig ==
  [enforceComments |-> TRUE, maxFunctionLines |-> DefaultMaxFunctionLines,
   scanSecrets |-> TRUE, vulnerabilityScan |-> TRUE, allowedSecretPatterns |-> <<>>,
   bundleSize |-> "500KB"]

RECURSIVE CountSeverity(_, _, _)
CountSeverity(issues, severity, k) ==
  IF k > Len(issues) THEN 0
  ELSE (IF issues[k].severity = severity THEN 1 ELSE 0) + CountSeverity(issues, severity, k + 1)

\* runAudit: validators with their default configuration and no autoFix, in
\* the order code, security, performance; the score total is divided by the
\* number of names requested
RunAuditReport(files, pkg, audit, docs, standards) ==
  LET order == Filter(<<"code", "security", "performance">>, Range(standards), 1)
      Results(all, issues, overallScore) ==
        [files |-> all.files,
         report |-> [api |-> "runAudit", standards |-> standards, autoFix |-> FALSE,
                     raised |-> FALSE,
                     passed |-> overallScore >= 80 /\ CountSeverity(issues, "error", 1) = 0,
                     issues |-> issues,
                     fixed |-> <<>>,
                     runs |-> all.runs,
                     overallScore |-> [num |-> overallScore, den |-> 1]]]
      Merged(all) ==
        Results(all, AllIssues(all.runs, 1), Round(SumScores(all.runs, 1), Len(standards)))
  IN  Merged(RunAll(order, 1, files, pkg, audit, docs, DefaultConfig, FALSE))


\* -------------------------------------------------------------------- state
VARIABLES
  root,     \* "ok", or "missing" when the project path does not exist
  files,    \* path -> [exists, readable, lines]
  pkg,      \* package.json: [exists, parses, deps]
  audit,    \* what 'npm audit --json' does: [exit, parses, vulns]
  docs,     \* the required documents present in the working directory
  config,   \* the configuration the validators were constructed with
  report,   \* the report of the last call
  prev,     \* files and report as they were before the last call
  calls,    \* number of calls made
  original, \* the files as they were before the first call
  tasks,    \* the three scanners of one invocation run as independent tasks
  arg,      \* the arguments of the last call of a helper called on its own
  result    \* what that call returned

vars == <<root, projectPath, files, pkg, audit, docs, config, report, prev, calls, original, tasks,
          arg, result>>

NoFile == [exists |-> FALSE, readable |-> FALSE, lines |-> <<>>]
File(lines) == [exists |-> TRUE, readable |-> TRUE, lines |-> lines]
Unreadable(lines) == [exists |-> TRUE, readable |-> FALSE, lines |-> lines]

\* a project holding src/a.js and src/b.js
TwoFiles(a, b) ==
  [p \in Paths |-> IF p = "src/a.js" THEN a ELSE IF p = "src/b.js" THEN b ELSE NoFile]

\* <cwd>/project
DefaultProjectPath == <<"", "home", "dev", "project">>

NoReport ==
  [api |-> "none", standards |-> <<>>, autoFix |-> FALSE, raised |-> FALSE, passed |-> FALSE,
   issues |-> <<>>, fixed |-> <<>>, runs |-> <<>>, overallScore |-> [num |-> 0, den |-> 1]]

NoTasks == [active |-> FALSE, autoFix |-> FALSE, pending |-> {}, files0 |-> <<>>, results |-> <<>>]

\* contents of src/a.js
SampleFiles ==
  { <<"cmt", "func", "close">>,            \* a commented function
    <<"doc", "func", "close">>,
    <<"func", "close">>,                   \* an uncommented function
    <<"func1", "func1">>,                  \* two uncommented functions
    <<"cmt", "func1", "func1">>,           \* one commented, one not
    <<"func", "stmt", "stmt", "close">>,   \* a function of four lines
    <<"stmt">>,                            \* no function
    <<"secret">>,                          \* a hardcoded secret
    <<"secret", "secret", "secret", "secret">>,
    <<"cmt", "func", "secret", "close">>,  \* a secret in a commented function
    <<"log">>,                             \* one anti-pattern
    <<"req", "log", "log">>,               \* an import and two anti-patterns
    <<"big">>,                             \* a file over 100000 bytes
    <<"big", "big", "log">>,
    <<"for", "for", "close", "close">> }   \* a two-level loop nest

ConfigSet ==
  { DefaultConfig,
    [DefaultConfig EXCEPT !.enforceComments = FALSE],
    [DefaultConfig EXCEPT !.maxFunctionLines = 3, !.bundleSize = "50KB"],
    [DefaultConfig EXCEPT !.vulnerabilityScan = FALSE, !.allowedSecretPatterns = <<"akia">>,
                          !.bundleSize = "half a megabyte"] }

NoPackage == [exists |-> FALSE, parses |-> FALSE, deps |-> <<>>]
NoAudit == [exit |-> 0, parses |-> TRUE, vulns |-> <<>>]

\* package.json and the audit of its dependencies
PackageSet ==
  { [pkg |-> NoPackage, audit |-> NoAudit],
    [pkg |-> [exists |-> TRUE, parses |-> TRUE, deps |-> <<"lodash">>], audit |-> NoAudit],
    [pkg |-> [exists |-> TRUE, parses |-> TRUE, deps |-> <<"lodash", "@scope/name">>],
     audit |-> [exit |-> 0, parses |-> TRUE, vulns |-> <<"low">>]],
    [pkg |-> [exists |-> TRUE, parses |-> TRUE, deps |-> <<>>],
     audit |-> [exit |-> 1, parses |-> TRUE, vulns |-> <<"critical", "high">>]],
    [pkg |-> [exists |-> TRUE, parses |-> TRUE, deps |-> <<>>],
     audit |-> [exit |-> 1, parses |-> FALSE, vulns |-> <<>>]] }

Known == {"code", "security", "performance"}

\* the standards lists a caller passes: every ordering of every non-empty set
\* of known standards, the empty list, and lists with other names
StandardLists ==
  {<<a>> : a \in Known}
    \cup {s \in Known \X Known : s[1] # s[2]}
    \cup {s \in Known \X Known \X Known : s[1] # s[2] /\ s[1] # s[3] /\ s[2] # s[3]}
    \cup {<<>>, <<"docs">>, <<"code", "docs">>, <<"maintenance", "security">>}

InitState ==
  /\ report = NoReport
  /\ prev = [files |-> files, report |-> NoReport]
  /\ calls = 0
  /\ original = files
  /\ tasks = NoTasks
  /\ arg = <<>>
  /\ result = <<>>
  /\ projectPath = DefaultProjectPath

Init ==
  /\ root \in {"ok", "missing"}
  /\ config \in ConfigSet
  /\ docs = {}
  /\ IF root = "missing"
     THEN /\ files = [p \in Paths |-> NoFile]
          /\ pkg = NoPackage
          /\ audit = NoAudit
     ELSE /\ \E a \in SampleFiles, b \in {NoFile, Unreadable(<<"stmt">>)} :
               files = TwoFiles(File(a), b)
          /\ \E p \in PackageSet : pkg = p.pkg /\ audit = p.audit
  /\ InitState

\* ------------------------------------------------------------------ actions
\* every call after the first repeats the first call's entry point and
\* standards; autoFix is chosen anew
SameSession(api, standards) ==
  calls > 0 => report.api = api /\ report.standards = standards

Returned(out) ==
  /\ files' = out.files
  /\ report' = out.report
  /\ prev' = [files |-> files, report |-> report]
  /\ calls' = calls + 1
  /\ UNCHANGED <<root, projectPath, pkg, audit, docs, config, original, tasks, arg, result>>

Validate(standards, autoFix) ==
  /\ calls < MaxCalls
  /\ SameSession("BestPracticesSDK", standards)
  /\ Returned(BestPracticesValidate(files, pkg, audit, docs, config, standards, autoFix))

ValidateCD(standards, autoFix) ==
  /\ calls < MaxCalls
  /\ SameSession("CodeDirectivesSDK", standards)
  /\ Returned(CodeDirectivesValidate(files, pkg, audit, docs, config, standards, autoFix))

\* options.standards.split(',') is never empty
runAudit(standards) ==
  /\ calls < MaxCalls
  /\ standards # <<>>
  /\ SameSession("runAudit", standards)
  /\ Returned(RunAuditReport(files, pkg, audit, docs, standards))

\* CodeValidator.validate called on its own (scanCode)
ScanCode(autoFix) ==
  /\ calls < MaxCalls
  /\ SameSession("CodeValidator", <<"code">>)
  /\ LET Results(out) ==
           [files |-> out.files,
            report |-> [api |-> "CodeValidator", standards |-> <<"code">>,
                        autoFix |-> autoFix, raised |-> FALSE,
                        passed |-> Len(out.runs[1].issues) = 0,
                        issues |-> out.runs[1].issues,
                        fixed |-> out.runs[1].fixed,
                        runs |-> out.runs,
                        overallScore |-> [num |-> out.runs[1].score, den |-> 1]]]
     IN  Returned(Results(RunAll(<<"code">>, 1, files, pkg, audit, docs, config, autoFix)))

\* the three scanners of one invocation started as independent tasks
StartTasks(autoFix) ==
  /\ calls = 0
  /\ ~tasks.active
  /\ tasks' = [active |-> TRUE, autoFix |-> autoFix, pending |-> Known,
               files0 |-> files, results |-> <<>>]
  /\ UNCHANGED <<root, projectPath, files, pkg, audit, docs, config, report, prev, calls, original, arg,
               result>>

\* one task runs to completion on the files as they are now
RunTask(standard) ==
  /\ tasks.active
  /\ standard \in tasks.pending
  /\ LET Finished(out) ==
           /\ files' = out.files
           /\ tasks' = [tasks EXCEPT !.pending = @ \ {standard},
                                     !.results = Append(@, out.run)]
     IN  Finished(RunValidator(standard, files, pkg, audit, docs, config, tasks.autoFix))
  /\ UNCHANGED <<root, projectPath, pkg, audit, docs, config, report, prev, calls, original, arg, result>>

Next ==
  \/ \E standards \in StandardLists, autoFix \in BOOLEAN : Validate(standards, autoFix)
  \/ \E standards \in StandardLists, autoFix \in BOOLEAN : ValidateCD(standards, autoFix)
  \/ \E standards \in StandardLists : runAudit(standards)

Spec == Init /\ [][Next]_vars

\* the scanners as tasks, in every order
NextTasks ==
  \/ \E autoFix \in BOOLEAN : StartTasks(autoFix)
  \/ \E standard \in Known : RunTask(standard)

SpecTasks == Init /\ [][NextTasks]_vars

\* the code scanner alone, over every file of up to MaxLines lines
CodeLines == {"func", "func1", "stmt", "close", "cmt"}

FilesUpTo(n) == UNION {[1..k -> CodeLines] : k \in 1..n}

CodeConfigSet ==
  { DefaultConfig,
    [DefaultConfig EXCEPT !.enforceComments = FALSE],
    [DefaultConfig EXCEPT !.maxFunctionLines = 2] }

InitCode ==
  /\ root = "ok"
  /\ config \in CodeConfigSet
  /\ docs = {}
  /\ pkg = NoPackage
  /\ audit = NoAudit
  /\ \E a \in FilesUpTo(MaxLines), b \in {NoFile, File(<<"func1">>)} :
       files = TwoFiles(File(a), b)
  /\ InitState

NextCode == \E autoFix \in BOOLEAN : ScanCode(autoFix)

SpecCode == InitCode /\ [][NextCode]_vars


\* the security scanner alone, over every file of up to MaxSecretLines lines
\* that hold secrets, for projects in several places
SecretLines == {"secret", "secret:ex", "cmt:secret", "pwd", "stmt"}

SecretFilesUpTo(n) == UNION {[1..k -> SecretLines] : k \in 1..n}

SecurityConfigSet ==
  { DefaultConfig,
    [DefaultConfig EXCEPT !.scanSecrets = FALSE],
    [DefaultConfig EXCEPT !.scanSecrets = FALSE, !.vulnerabilityScan = FALSE],
    [DefaultConfig EXCEPT !.allowedSecretPatterns = <<"AKIA">>],
    [DefaultConfig EXCEPT !.allowedSecretPatterns = <<NonString>>] }

\* the default path './' (glob then returns paths relative to it), a project
\* given by its absolute path, one below a directory named test, and the
\* project the unit tests create
ProjectPaths ==
  { <<>>,
    DefaultProjectPath,
    <<"", "home", "test", "project">>,
    <<"", "repo", "tests", "fixtures", "test-project">> }

\* src/a.js alone, or with the same content in test/a.test.js, or with a
\* second file that matches two include patterns, or that cannot be read
ProjectsOf(a) ==
  { TwoFiles(File(a), NoFile),
    [TwoFiles(File(a), NoFile) EXCEPT !["test/a.test.js"] = File(a)],
    [TwoFiles(File(a), NoFile) EXCEPT !["src/app.config.js"] = File(<<"pwd">>)],
    TwoFiles(File(a), Unreadable(<<"pwd">>)) }

InitSecurity ==
  /\ root = "ok"
  /\ config \in SecurityConfigSet
  /\ docs = {}
  /\ \E p \in PackageSet : pkg = p.pkg /\ audit = p.audit
  /\ \E a \in SecretFilesUpTo(MaxSecretLines) : files \in ProjectsOf(a)
  /\ report = NoReport
  /\ prev = [files |-> files, report |-> NoReport]
  /\ calls = 0
  /\ original = files
  /\ tasks = NoTasks
  /\ arg = <<>>
  /\ result = <<>>
  /\ projectPath \in ProjectPaths

\* SecurityValidator.validate called on its own
ScanSecurity ==
  /\ calls < MaxCalls
  /\ LET Results(run) ==
           [files |-> files,
            report |-> [api |-> "SecurityValidator", standards |-> <<"security">>,
                        autoFix |-> FALSE, raised |-> FALSE,
                        passed |-> Len(run.issues) = 0,
                        issues |-> run.issues,
                        fixed |-> run.fixed,
                        runs |-> <<run>>,
                        overallScore |-> [num |-> run.score, den |-> 1]]]
     IN  Returned(Results(
           RunValidator("security", files, pkg, audit, docs, config, FALSE).run))

NextSecurity == ScanSecurity

SpecSecurity == InitSecurity /\ [][NextSecurity]_vars


\* the performance scanner alone, over every file of up to MaxLines lines of
\* loops, statements and data
LoopLines == {"for", "close", "stmt", "log", "big"}

LoopFilesUpTo(n) == UNION {[1..k -> LoopLines] : k \in 1..n}

PerformanceConfigSet ==
  { DefaultConfig, [DefaultConfig EXCEPT !.bundleSize = "150KB"],
    [DefaultConfig EXCEPT !.bundleSize = "100B"] }

InitPerformance ==
  /\ root = "ok"
  /\ config \in PerformanceConfigSet
  /\ docs = {}
  /\ audit = NoAudit
  /\ pkg \in {NoPackage, [exists |-> TRUE, parses |-> TRUE, deps |-> <<"lodash">>]}
  /\ \E a \in LoopFilesUpTo(MaxLines),
        b \in {NoFile, File(<<"big">>), Unreadable(<<"stmt">>)} :
       files = TwoFiles(File(a), b)
  /\ InitState

\* PerformanceValidator.validate called on its own
ScanPerformance ==
  /\ calls < MaxCalls
  /\ LET Results(run) ==
           [files |-> files,
            report |-> [api |-> "PerformanceValidator", standards |-> <<"performance">>,
                        autoFix |-> FALSE, raised |-> FALSE,
                        passed |-> Len(run.issues) = 0,
                        issues |-> run.issues,
                        fixed |-> run.fixed,
                        runs |-> <<run>>,
                        overallScore |-> [num |-> run.score, den |-> 1]]]
     IN  Returned(Results(
           RunValidator("performance", files, pkg, audit, docs, config, FALSE).run))

NextPerformance == ScanPerformance

SpecPerformance == InitPerformance /\ [][NextPerformance]_vars

\* a helper called on its own: nothing is validated, arg holds the
\* arguments and result what the helper returned
Quiet ==
  /\ root = "ok"
  /\ projectPath = DefaultProjectPath
  /\ files = [p \in Paths |-> NoFile]
  /\ pkg = NoPackage
  /\ audit = NoAudit
  /\ docs = {}
  /\ config = DefaultConfig
  /\ report = NoReport
  /\ prev = [files |-> files, report |-> NoReport]
  /\ calls = 0
  /\ original = files
  /\ tasks = NoTasks
  /\ result = <<>>

Applied(value) ==
  /\ calls = 0
  /\ calls' = 1
  /\ result' = value
  /\ UNCHANGED <<root, projectPath, files, pkg, audit, docs, config, report, prev, original,
                 tasks, arg>>

\* _calculatePerformanceScore over metrics with counts up to MaxCount, for
\* bundles below, at and above limits of 3 and 1000 bytes
BundleSizes == {0, 2, 3, 4, 5, 7, 8, 1000, 1001, 1025, 1500, 2499, 2500, 4000}

InitPerformanceScore ==
  /\ Quiet
  /\ \E largeFiles \in 0..MaxCount, unusedDependencies \in 0..MaxCount,
        performanceIssues \in 0..MaxCount, bundleSize \in BundleSizes, limit \in {3, 1000} :
       arg = [metrics |-> [bundleSize |-> bundleSize, totalFiles |-> largeFiles,
                           largeFiles |-> largeFiles,
                           unusedDependencies |-> unusedDependencies,
                           performanceIssues |-> performanceIssues],
              limit |-> limit]

CalculatePerformanceScore == Applied(_calculatePerformanceScore(arg.metrics, arg.limit))

NextPerformanceScore == CalculatePerformanceScore

SpecPerformanceScore == InitPerformanceScore /\ [][NextPerformanceScore]_vars


\* _validateFile without autoFix on one file of up to MaxLines lines, among
\* them arrow functions without braces, for several maxFunctionLines
ExtentLines == {"func", "func1", "arrow", "stmt", "close", "cmt"}

InitExtent ==
  /\ Quiet
  /\ \E lines \in UNION {[1..k -> ExtentLines] : k \in 1..MaxLines},
        maxFunctionLines \in {1, 2, DefaultMaxFunctionLines} :
       arg = [lines |-> lines, maxFunctionLines |-> maxFunctionLines]

ValidateFile ==
  Applied(_validateFile("src/a.js", arg.lines, FALSE,
                        [DefaultConfig EXCEPT !.maxFunctionLines = arg.maxFunctionLines]))

NextExtent == ValidateFile

SpecExtent == InitExtent /\ [][NextExtent]_vars


\* _checkUnusedDependencies for every file of up to MaxLines lines of require
\* and import statements, and several manifests
ImportLines == {"req", "imp:sub", "imp:scoped", "req:rel", "imp:open", "imp:from"}

Manifests ==
  { NoPackage,
    [exists |-> TRUE, parses |-> FALSE, deps |-> <<>>],
    [exists |-> TRUE, parses |-> TRUE, deps |-> <<>>],
    [exists |-> TRUE, parses |-> TRUE, deps |-> <<"lodash">>],
    [exists |-> TRUE, parses |-> TRUE, deps |-> <<"@scope/name", "lodash">>],
    [exists |-> TRUE, parses |-> TRUE, deps |-> <<"express", "@scope/name">>] }

InitDependencies ==
  /\ root = "ok"
  /\ projectPath = DefaultProjectPath
  /\ \E a \in UNION {[1..k -> ImportLines] : k \in 1..MaxLines},
        b \in {NoFile, File(<<"imp:scoped">>)} :
       files = TwoFiles(File(a), b)
  /\ pkg \in Manifests
  /\ audit = NoAudit
  /\ docs = {}
  /\ config = DefaultConfig
  /\ report = NoReport
  /\ prev = [files |-> files, report |-> NoReport]
  /\ calls = 0
  /\ original = files
  /\ tasks = NoTasks
  /\ arg = <<>>
  /\ result = <<>>

CheckUnusedDependencies == Applied(_checkUnusedDependencies(files, pkg))

NextDependencies == CheckUnusedDependencies

SpecDependencies == InitDependencies /\ [][NextDependencies]_vars


\* CodeDirectivesSDK.validate alone, for projects with and without the
\* required documents, for the default list of standards and parts of it
DirectiveLists ==
  { <<"code", "security", "performance", "maintenance">>,
    <<"maintenance", "code">>, <<"maintenance">>, <<"code">>,
    <<"security", "performance">>, <<"code", "docs">> }

InitDirectives ==
  /\ root = "ok"
  /\ config = DefaultConfig
  /\ docs \in SUBSET Range(RequiredDocs)
  /\ \E a \in {<<"cmt", "func", "close">>, <<"func", "close">>, <<"stmt">>, <<"secret">>,
                 <<"log">>} :
       files = TwoFiles(File(a), NoFile)
  /\ \E p \in PackageSet : pkg = p.pkg /\ audit = p.audit
  /\ InitState

NextDirectives ==
  \E standards \in DirectiveLists, autoFix \in BOOLEAN : ValidateCD(standards, autoFix)

SpecDirectives == InitDirectives /\ [][NextDirectives]_vars


\* new PerformanceValidator(config) for size and time settings that parse, that
\* do not parse, and that are not strings
SizeSettings ==
  {"500KB", "50KB", "150KB", "100B", "500 KB", "500kb", "2MB", "1TB", "half a megabyte",
   "500XB", "", NonString, "#null"}

TimeSettings == {"2s", "500ms", "1m", "3 S", "3h", "soon", "", NonString, "#null"}

InitLimits ==
  /\ Quiet
  /\ arg \in {[bundleSize |-> b, loadTime |-> t] : b \in SizeSettings, t \in TimeSettings}
              \cup {[bundleSize |-> b] : b \in SizeSettings}
              \cup {[loadTime |-> t, apiResponseTime |-> t] : t \in TimeSettings}
              \cup {<<>>}

ConstructPerformanceValidator ==
  Applied(PerformanceValidatorLimits(PerformanceValidatorConfig(arg)))

NextLimits == ConstructPerformanceValidator

SpecLimits == InitLimits /\ [][NextLimits]_vars


\* a project with a configuration, validated through the validate command or
\* through an SDK constructed with the configuration object
CodeSettings ==
  { <<>>, [maxFunctionLines |-> 30], [maxFunctionLines |-> 2],
    [enforceComments |-> FALSE], [enforceComments |-> FALSE, maxFunctionLines |-> 2] }

SecuritySettings ==
  { <<>>, [scanSecrets |-> FALSE], [allowedSecretPatterns |-> <<"AKIA">>],
    [vulnerabilityScan |-> FALSE, allowedSecretPatterns |-> <<"AKIA">>] }

PerformanceSettings == { <<>>, [bundleSize |-> "150KB"], [bundleSize |-> "100B", loadTime |-> "2s"] }

\* the content of the configuration: the documented layout, or the settings
\* as top-level keys
ConfigContents ==
  {[standards |-> [code |-> c, security |-> s, performance |-> p]] :
     c \in CodeSettings, s \in SecuritySettings, p \in PerformanceSettings}
    \cup {[maxFunctionLines |-> 2, bundleSize |-> "150KB"], <<>>}

ProjectConfigs ==
  {[file |-> f, parses |-> TRUE, content |-> c] :
     f \in {".bp-config.yml", ".bp-config.json"}, c \in ConfigContents}
    \cup {[file |-> "package.json", parses |-> TRUE, content |-> [bestPractices |-> c]] :
             c \in ConfigContents}
    \cup {[file |-> ".bp-config.yml", parses |-> FALSE, content |-> <<>>],
           [file |-> "none", parses |-> FALSE, content |-> <<>>]}

InitConfig ==
  /\ root = "ok"
  /\ config = DefaultConfig
  /\ docs = {}
  /\ pkg = NoPackage
  /\ audit = NoAudit
  /\ files = TwoFiles(File(<<"func", "stmt", "secret", "close">>), NoFile)
  /\ report = NoReport
  /\ prev = [files |-> files, report |-> NoReport]
  /\ calls = 0
  /\ original = files
  /\ tasks = NoTasks
  /\ result = <<>>
  /\ projectPath = DefaultProjectPath
  /\ arg \in ProjectConfigs

\* sdk.validate of an SDK whose validators hold `configs`
Validated(api, configs, standards, autoFix) ==
  /\ calls = 0
  /\ LET Results(out) ==
           /\ files' = out.files
           /\ report' = [out.report EXCEPT !.api = api]
     IN  Results(BestPracticesValidate(files, pkg, audit, docs, ValidatorSettings(configs),
                                       standards, autoFix))
  /\ config' = ValidatorSettings(configs)
  /\ result' = configs
  /\ prev' = [files |-> files, report |-> report]
  /\ calls' = 1
  /\ UNCHANGED <<root, projectPath, pkg, audit, docs, original, tasks, arg>>

\* the validate command: loadProjectConfig, new BestPracticesSDK(config),
\* sdk.validate
validateProject(standards, autoFix) ==
  Validated("validateProject", BestPracticesSDKConfigs(loadProjectConfig(arg)), standards,
            autoFix)

\* new BestPracticesSDK(content).validate(...) by a caller that read the
\* configuration itself
ValidateConfigured(standards, autoFix) ==
  /\ arg.parses
  /\ arg.file # "package.json"
  /\ Validated("BestPracticesSDK", BestPracticesSDKConfigs(arg.content), standards, autoFix)

NextConfig ==
  \/ \E standards \in {<<"code", "security", "performance">>, <<"code">>}, autoFix \in BOOLEAN :
       validateProject(standards, autoFix)
  \/ \E standards \in {<<"code", "security", "performance">>, <<"code">>}, autoFix \in BOOLEAN :
       ValidateConfigured(standards, autoFix)

SpecConfig == InitConfig /\ [][NextConfig]_vars


\* ------------------------------------------------------------------- claims
Called == report.api # "none"

\* the caller asked for a non-empty list of known standards
KnownRequest == Len(report.standards) > 0 /\ Range(report.standards) \subseteq Known

Severities(issues) == {issues[i].severity : i \in 1..Len(issues)}
Types(issues) == {issues[i].type : i \in 1..Len(issues)}

C2_RoundedMean ==
  (Called /\ KnownRequest) =>
    /\ report.overallScore.den > 0
    /\ report.overallScore.num =
         report.overallScore.den * Round(SumScores(report.runs, 1), Len(report.standards))

\* C3: passed is true exactly when the overall score is at least 80 and no
\* issue has severity critical or error.
C3_PassRule ==
  (Called /\ KnownRequest) =>
    (report.passed <=>
       /\ report.overallScore.num >= 80 * report.overallScore.den
       /\ Severities(report.issues) \cap {"critical", "error"} = {})

\* C4: the scanners run are those requested, in the order requested, and the
\* issues are the per-standard issue lists concatenated in that order.
C4_RequestedOrder ==
  (Called /\ KnownRequest) =>
    /\ Len(report.runs) = Len(report.standards)
    /\ \A i \in 1..Len(report.runs) : report.runs[i].standard = report.standards[i]
    /\ report.issues = AllIssues(report.runs, 1)

\* C5: a scanner that fails does not abort the run; its score is 0 and the
\* failure is exactly one issue record of severity critical.
C5_FailureIsCriticalIssue ==
  (Called /\ KnownRequest) =>
    /\ Len(report.runs) = Len(report.standards)
    /\ \A i \in 1..Len(report.runs) :
         report.runs[i].error =>
           /\ report.runs[i].score = 0
           /\ Len(report.runs[i].issues) = 1
           /\ report.runs[i].issues[1].severity = "critical"

\* C6: validate raises exactly when the root is missing, the standards list
\* is empty or a standard name is unknown; otherwise it returns a report.
C6_RaisesOnBadInput ==
  report.api = "BestPracticesSDK" =>
    (report.raised <=>
       \/ root = "missing"
       \/ report.standards = <<>>
       \/ ~(Range(report.standards) \subseteq Known))

FixedOrderRuns ==
  RunAll(<<"code", "security", "performance">>, 1, tasks.files0, pkg, audit, docs, config,
         tasks.autoFix).runs

TasksDone == tasks.active /\ tasks.pending = {}

SameAsFixedOrder ==
  \A i \in 1..Len(tasks.results) : \E j \in 1..Len(FixedOrderRuns) :
    /\ FixedOrderRuns[j].standard = tasks.results[i].standard
    /\ FixedOrderRuns[j] = tasks.results[i]

\* C7 as stated: for every autoFix setting, the three scanners run in any
\* order give the per-standard results of the order code, security,
\* performance.
C7_AnyOrder == TasksDone => SameAsFixedOrder

\* C7 amended: with autoFix off, the three scanners run in any order give the
\* per-standard scores, metrics and issues of the order code, security,
\* performance.
C7_AnyOrderWithoutAutoFix == (TasksDone /\ ~tasks.autoFix) => SameAsFixedOrder

C7_Witness ==
  /\ TasksDone
  /\ ~tasks.autoFix
  /\ tasks.results[1].standard = "performance"
  /\ tasks.results[3].standard = "code"
  /\ "missing-comment" \in Types(tasks.results[3].issues)
  /\ tasks.results[1].metrics.bundleSize > 0

\* the functions of the file, none of which has a comment above it
AllUncommented(lines) ==
  LET functions == _extractFunctions(lines)
  IN  \A k \in 1..Len(functions) : ~_hasInlineComment(lines, functions[k].startLine)

\* C9: after an autoFix pass over files whose functions are all uncommented,
\* the next pass reports no missing-comment issue and fixes nothing further.
C9_AutoFixConverges ==
  ( /\ calls = 2
    /\ prev.report.autoFix
    /\ config.enforceComments
    /\ \A p \in Paths : AllUncommented(original[p].lines) )
  => /\ "missing-comment" \notin Types(report.issues)
     /\ report.fixed = <<>>

\* C10: for totalFunctions > 0 the code score is
\* (commentedFunctions/totalFunctions)*80 + 20 - (longFunctions/totalFunctions)*20
\* clamped to 0..100 and rounded to the nearest integer (halves upwards);
\* with no function detected the score is 100 and there is no issue.
C10_CodeScore ==
  \A i \in 1..Len(report.runs) :
    (report.runs[i].standard = "code" /\ ~report.runs[i].error) =>
      LET m == report.runs[i].metrics
          t == m.totalFunctions
          x == 80 * m.commentedFunctions + 20 * t - 20 * m.longFunctions
          clamped == Max(0, Min(100 * t, x))
          score == report.runs[i].score
      IN  /\ t > 0 => /\ 2 * t * score - t <= 2 * clamped
                      /\ 2 * clamped < 2 * t * score + t
          /\ t = 0 => score = 100 /\ report.runs[i].issues = <<>>

C10_Witness ==
  /\ report.api = "CodeValidator"
  /\ ~report.runs[1].error
  /\ report.runs[1].metrics.totalFunctions = 3
  /\ report.runs[1].metrics.commentedFunctions = 0
  /\ report.runs[1].metrics.longFunctions = 1
  /\ report.runs[1].score = 13


RECURSIVE CountType(_, _, _)
CountType(issues, type, k) ==
  IF k > Len(issues) THEN 0
  ELSE (IF issues[k].type = type THEN 1 ELSE 0) + CountType(issues, type, k + 1)

\* the vulnerable packages the audit reported to this run
ReportedVulnerable ==
  IF config.vulnerabilityScan /\ pkg.exists /\ audit.parses THEN Len(audit.vulns) ELSE 0

\* C11: the security score is max(0, 100 - 15*secretsFound - 10*vulnerabilities)
\* with secretsFound the number of hardcoded-secret issues reported and
\* vulnerabilities the number of vulnerable packages the audit reported; it
\* is 100 when both scans are disabled.
C11_SecurityScore ==
  \A i \in 1..Len(report.runs) :
    (report.runs[i].standard = "security" /\ ~report.runs[i].error) =>
      /\ report.runs[i].score =
           Max(0, 100 - 15 * CountType(report.runs[i].issues, "hardcoded-secret", 1)
                      - 10 * ReportedVulnerable)
      /\ (~config.scanSecrets /\ ~config.vulnerabilityScan) => report.runs[i].score = 100

C11_Witness ==
  /\ report.api = "SecurityValidator"
  /\ CountType(report.issues, "hardcoded-secret", 1) = 2
  /\ audit.exit # 0
  /\ ReportedVulnerable = 2
  /\ report.runs[1].score = 50


\* C12: the performance score is 100 less min(30, (bundleSize/limit - 1)*20)
\* when bundleSize exceeds the limit, less min(20, 5 per large file), less
\* min(15, 2 per unused dependency), less min(25, 2 per performance issue),
\* rounded to the nearest integer, and never below 10.
C12_PerformanceScore ==
  calls = 1 =>
    LET m == arg.metrics
        rest == 100 - Min(20, 5 * m.largeFiles) - Min(15, 2 * m.unusedDependencies)
                    - Min(25, 2 * m.performanceIssues)
        \* the bundle deduction as a multiple of 1/limit
        bundle == IF m.bundleSize > arg.limit
                  THEN Min(30 * arg.limit, 20 * (m.bundleSize - arg.limit))
                  ELSE 0
        exact == rest * arg.limit - bundle
    IN  /\ 2 * arg.limit * result - arg.limit <= 2 * exact
        /\ 2 * exact < 2 * arg.limit * result + arg.limit
        /\ result >= 10

C12_Witness ==
  /\ calls = 1
  /\ arg.metrics.largeFiles = 4
  /\ arg.metrics.unusedDependencies = 8
  /\ arg.metrics.performanceIssues = 13
  /\ arg.metrics.bundleSize = 2500 /\ arg.limit = 1000
  /\ result = 10


\* the number of hardcoded-secret issues reported for a line of a file
RECURSIVE SecretsAt(_, _, _, _)
SecretsAt(issues, file, line, k) ==
  IF k > Len(issues) THEN 0
  ELSE (IF issues[k].type = "hardcoded-secret" /\ issues[k].file = file
           /\ issues[k].line = line THEN 1 ELSE 0)
       + SecretsAt(issues, file, line, k + 1)

\* how often discovery returned the path
Occurrences(found, path) == Cardinality({k \in 1..Len(found) : found[k] = path})

\* the lowercased line contains a built-in allow-list token or an entry of
\* allowedSecretPatterns
AllowListed(l) ==
  \/ BuiltinAllowTokens(l) # {}
  \/ \E k \in 1..Len(config.allowedSecretPatterns) :
       LineIncludes(l, ToLowerCase(config.allowedSecretPatterns[k]))

StringEntries ==
  \A k \in 1..Len(config.allowedSecretPatterns) : config.allowedSecretPatterns[k] # NonString

\* the files the secret scanner reads once and does not take for test files
ScannedOnce ==
  {f \in Paths : /\ files[f].exists /\ files[f].readable
                 /\ Occurrences(_findFilesToScan(files), f) = 1
                 /\ ~_isTestFile(PathParts(f))}

\* C13: a line that is no comment, in a file that is no test file, holding
\* one secret literal yields exactly one hardcoded-secret issue when it has
\* no allow-listed token (however many signatures match it), and none when
\* it has one.
C13_OneIssuePerSecret ==
  (report.api = "SecurityValidator" /\ config.scanSecrets /\ StringEntries) =>
    \A f \in ScannedOnce : \A i \in 1..Len(files[f].lines) :
      LET l == files[f].lines[i]
      IN  (SecretMatches(l) # <<>> /\ ~_isCommentLine(l)) =>
            SecretsAt(report.issues, f, i, 1) = IF AllowListed(l) THEN 0 ELSE 1


\* the file has a line the secret scanner reports unless it skips the file
HasFlaggable(f) ==
  \E i \in 1..Len(files[f].lines) :
    LET l == files[f].lines[i]
    IN  SecretMatches(l) # <<>> /\ ~_isCommentLine(l) /\ ~AllowListed(l)

Flagged(f) ==
  \E k \in 1..Len(report.issues) :
    report.issues[k].type = "hardcoded-secret" /\ report.issues[k].file = f

\* the rule as stated: a test mark in the file name, or a directory segment
\* named test, tests or __tests__, counted after fixtures/<project-name>/
\* when the path has a fixtures segment
StatedTestFile(pathParts) ==
  LET n == Len(pathParts)
      fixtures == {k \in 1..n - 1 : pathParts[k] = "fixtures"}
      first == CHOOSE k \in fixtures : \A j \in fixtures : k <= j
  IN  \/ IncludesTestMark(pathParts[n])
      \/ \E k \in 1..n - 1 :
           /\ pathParts[k] \in TestDirs
           /\ fixtures # {} => k > first + 1

\* C14: the secret scanner takes a file for a test file, and reports no
\* secret in it, exactly when its name holds '.test.' or '.spec.' or a
\* directory segment is test, tests or __tests__ (after
\* fixtures/<project-name>/ when there is a fixtures segment); so the same
\* secret is flagged in <project>/src/a.js and not in
\* <project>/test/a.test.js, wherever the project is.
C14_TestFileSuppression ==
  (report.api = "SecurityValidator" /\ config.scanSecrets /\ StringEntries) =>
    \A f \in Paths :
      ( /\ files[f].exists /\ files[f].readable
        /\ Occurrences(_findFilesToScan(files), f) = 1
        /\ HasFlaggable(f) ) =>
          /\ Flagged(f) <=> ~StatedTestFile(PathParts(f))
          /\ f = "src/a.js" => Flagged(f)
          /\ f = "test/a.test.js" => ~Flagged(f)


\* the number of characters of the match shown in the issue's message
\* `${description}: ${preview}...`
PreviewLength(issue) ==
  Len(issue.text) - Len(Description(issue.secretType)) - Len(": ") - Len("...")

\* C15: every hardcoded-secret issue has severity high, and the preview in
\* its message is strictly shorter than the text the signature matched.
C15_PreviewIsTruncated ==
  report.api = "SecurityValidator" =>
    \A k \in 1..Len(report.issues) :
      LET issue == report.issues[k]
      IN  issue.type = "hardcoded-secret" =>
            /\ issue.severity = "high"
            /\ PreviewLength(issue)
                 < Len(MatchText(files[issue.file].lines[issue.line], issue.secretType))


\* the severities of the vulnerability issues, in report order
RECURSIVE VulnerabilitySeverities(_, _)
VulnerabilitySeverities(issues, k) ==
  IF k > Len(issues) THEN <<>>
  ELSE (IF issues[k].type = "vulnerability" THEN <<issues[k].severity>> ELSE <<>>)
       \o VulnerabilitySeverities(issues, k + 1)

\* C16: whatever the exit status of the audit command, each vulnerable
\* package of its JSON output yields one vulnerability issue with the audit's
\* severity and metrics.vulnerabilities counts those issues; output that
\* does not parse gives zero vulnerabilities and the scan still completes.
C16_AuditExitIsNotFatal ==
  (report.api = "SecurityValidator" /\ config.vulnerabilityScan /\ pkg.exists) =>
    /\ ~report.runs[1].error
    /\ report.runs[1].metrics.vulnerabilities
         = Len(VulnerabilitySeverities(report.issues, 1))
    /\ VulnerabilitySeverities(report.issues, 1) = IF audit.parses THEN audit.vulns ELSE <<>>


\* the number of loops open before line i (1-based) of the file
RECURSIVE Depth(_, _)
Depth(lines, i) ==
  IF i = 1 THEN 0
  ELSE Depth(lines, i - 1) + (IF lines[i - 1] = "for" THEN 1 ELSE 0)
                           - (IF lines[i - 1] = "close" THEN 1 ELSE 0)

\* every brace of the file closes a loop that is open, and no loop stays open
Balanced(lines) ==
  /\ \A i \in 1..Len(lines) : lines[i] = "close" => Depth(lines, i) > 0
  /\ Depth(lines, Len(lines) + 1) = 0

Loops(lines) == {i \in 1..Len(lines) : lines[i] = "for"}

\* the line numbers of the nested-loop issues of a file, in report order
RECURSIVE NestedLoopLines(_, _, _)
NestedLoopLines(issues, file, k) ==
  IF k > Len(issues) THEN <<>>
  ELSE (IF issues[k].type = "nested-loop" /\ issues[k].file = file
        THEN <<issues[k].line>> ELSE <<>>)
       \o NestedLoopLines(issues, file, k + 1)

\* C17: in a file of loops written 'for (...) {', loops none of which lies
\* inside another yield no nested-loop issue, and a two-level nest yields
\* exactly one, at the line of the inner loop.
C17_NestedLoops ==
  (report.api = "PerformanceValidator" /\ ~report.runs[1].error) =>
    \A f \in Paths :
      LET lines == files[f].lines
          reported == NestedLoopLines(report.issues, f, 1)
      IN  (files[f].exists /\ Balanced(lines)) =>
            /\ (\A i \in Loops(lines) : Depth(lines, i) = 0) => reported = <<>>
            /\ \A i, j \in Loops(lines) :
                 (Loops(lines) = {i, j} /\ Depth(lines, i) = 0 /\ Depth(lines, j) = 1)
                   => reported = <<j>>


\* the bytes of the existing files of a set of paths
RECURSIVE SizeOfAll(_)
SizeOfAll(paths) ==
  IF paths = {} THEN 0
  ELSE LET p == CHOOSE q \in paths : TRUE
       IN  (IF files[p].exists THEN FileSize(files[p].lines) ELSE 0) + SizeOfAll(paths \ {p})

\* the number of issues of a type, of one file or (file = "") of any file
RECURSIVE CountIssues(_, _, _, _)
CountIssues(issues, type, file, k) ==
  IF k > Len(issues) THEN 0
  ELSE (IF issues[k].type = type /\ (file = "" \/ issues[k].file = file) THEN 1 ELSE 0)
       + CountIssues(issues, type, file, k + 1)

\* C18: a performance scan reports one bundle-size issue exactly when the
\* sizes of the discovered files sum to more than the configured limit, one
\* large-file issue for exactly the files over 100000 bytes, the sum as
\* metrics.bundleSize and as many large files as large-file issues.
C18_BundleSize ==
  (report.api = "PerformanceValidator" /\ ~report.runs[1].error) =>
    /\ CountIssues(report.issues, "bundle-size", "", 1)
         = (IF SizeOfAll(Paths) > _parseSize(config.bundleSize) THEN 1 ELSE 0)
    /\ \A f \in Paths :
         CountIssues(report.issues, "large-file", f, 1)
           = (IF files[f].exists /\ FileSize(files[f].lines) > 100000 THEN 1 ELSE 0)
    /\ report.runs[1].metrics.bundleSize = SizeOfAll(Paths)
    /\ report.runs[1].metrics.largeFiles = CountIssues(report.issues, "large-file", "", 1)

\* two files are over 100000 bytes and their sum is over the limit
C18_Witness ==
  /\ report.api = "PerformanceValidator"
  /\ ~report.runs[1].error
  /\ report.runs[1].metrics.largeFiles = 2
  /\ CountIssues(report.issues, "bundle-size", "", 1) = 1


\* C19: the secret scanner's discovery returns every matching path once:
\* the number of files scanned is the number of files of the project, and
\* no hardcoded-secret finding is reported twice.
C19_DiscoveredOnce ==
  (report.api = "SecurityValidator" /\ config.scanSecrets /\ ~report.runs[1].error) =>
    /\ report.runs[1].metrics.filesScanned = Cardinality({f \in Paths : files[f].exists})
    /\ \A k1, k2 \in 1..Len(report.issues) :
         (k1 # k2 /\ report.issues[k1].type = "hardcoded-secret")
           => report.issues[k1] # report.issues[k2]


\* the project without the files that cannot be read
WithoutUnreadable ==
  [p \in Paths |-> IF files[p].exists /\ ~files[p].readable THEN NoFile ELSE files[p]]

SameFindings(run, absent) ==
  /\ run.error = absent.error
  /\ run.score = absent.score
  /\ run.issues = absent.issues

\* C20: each of the three scanners skips a file that cannot be read: the
\* run's score and issues are those of the project without that file, with
\* no issue for the file and no failure of the standard.
C20_UnreadableSkipped ==
  (report.api \in {"BestPracticesSDK", "CodeDirectivesSDK"} /\ ~report.autoFix) =>
    \A k \in 1..Len(report.runs) :
      report.runs[k].standard \in {"code", "security", "performance"} =>
        SameFindings(report.runs[k],
                     RunValidator(report.runs[k].standard, WithoutUnreadable, pkg, audit,
                                  docs, config, FALSE).run)


\* the settings of a section in a configuration of the documented layout
SectionOf(content, section) ==
  IF "standards" \in DOMAIN content /\ section \in DOMAIN content.standards
  THEN content.standards[section] ELSE <<>>

\* the project's configuration as written, whatever file holds it
Written == IF arg.file = "package.json" THEN arg.content.bestPractices ELSE arg.content

DocumentedDefaults ==
  [code |-> [enforceComments |-> TRUE, maxFunctionLines |-> 50],
   security |-> [scanSecrets |-> TRUE, vulnerabilityScan |-> TRUE,
                 allowedSecretPatterns |-> <<>>],
   performance |-> [bundleSize |-> "500KB", loadTime |-> "2s"]]

\* C21: after the validate command or an SDK constructed with the project
\* configuration, every validator holds, for each documented key of its
\* section, the value set under standards.<section> and the documented
\* default for a key that is absent.
C21_ConfiguredValuesUsed ==
  (report.api \in {"validateProject", "BestPracticesSDK"} /\ arg.parses
     /\ (Written = <<>> \/ "standards" \in DOMAIN Written)) =>
    \A section \in DOMAIN DocumentedDefaults : \A key \in DOMAIN DocumentedDefaults[section] :
      result[section][key] = Spread(DocumentedDefaults[section], SectionOf(Written, section))[key]


\* a number, optional blanks and one of the units B, KB, MB, GB in any case
ParsableSizes == {"500KB", "50KB", "150KB", "100B", "500 KB", "500kb", "2MB"}

\* a number, optional blanks and one of the units ms, s, m in any case
ParsableTimes == {"2s", "500ms", "1m", "3 S"}

\* C22: constructing the performance scanner does not fail, and a bundle
\* size or load time setting that it cannot parse becomes 500000 bytes or
\* 2000 ms.
C22_UnparsableFallsBack ==
  (calls = 1 /\ "threw" \in DOMAIN result) =>
    /\ ~result.threw
    /\ ("bundleSize" \in DOMAIN arg /\ arg.bundleSize \notin ParsableSizes)
         => result.bundleSize = 500000
    /\ ("loadTime" \in DOMAIN arg /\ arg.loadTime \notin ParsableTimes)
         => result.loadTime = 2000


\* the functions of the file before the scan that have no comment above them
Uncommented(lines) ==
  {k \in 1..Len(_extractFunctions(lines)) :
     ~_hasInlineComment(lines, _extractFunctions(lines)[k].startLine)}

\* the file with one placeholder directly above each of its uncommented
\* functions, from line i (1-based) on
RECURSIVE WithPlaceholders(_, _)
WithPlaceholders(lines, i) ==
  IF i > Len(lines) THEN <<>>
  ELSE (IF \E k \in Uncommented(lines) : _extractFunctions(lines)[k].startLine = i - 1
        THEN <<Placeholder(FunctionName(lines[i]))>> ELSE <<>>)
       \o <<lines[i]>> \o WithPlaceholders(lines, i + 1)

\* the fixed entries of a function of a file
FixedFor(file, line) ==
  {k \in 1..Len(report.fixed) : report.fixed[k].file = file /\ report.fixed[k].line = line}

FixingScan ==
  /\ report.api = "CodeValidator"
  /\ report.autoFix
  /\ config.enforceComments
  /\ ~report.runs[1].error

\* C23: an auto-fix scan gives each uncommented function of a file exactly
\* one fixed entry and one placeholder, and in the rewritten file every
\* placeholder is the line directly above its function.
C23_PlaceholderAboveFunction ==
  FixingScan =>
    \A p \in Paths : prev.files[p].exists =>
      /\ files[p].lines = WithPlaceholders(prev.files[p].lines, 1)
      /\ \A k \in Uncommented(prev.files[p].lines) :
           Cardinality(FixedFor(p, _extractFunctions(prev.files[p].lines)[k].startLine + 1)) = 1


IsPlaceholder(l) ==
  l \in {Placeholder("f"), Placeholder("g"), Placeholder("for"), Placeholder("add")}

\* the lines without the placeholder comments
RECURSIVE WithoutPlaceholders(_, _)
WithoutPlaceholders(lines, i) ==
  IF i > Len(lines) THEN <<>>
  ELSE (IF IsPlaceholder(lines[i]) THEN <<>> ELSE <<lines[i]>>)
       \o WithoutPlaceholders(lines, i + 1)

\* the issues of one type, in report order
RECURSIVE OfType(_, _, _)
OfType(issues, type, k) ==
  IF k > Len(issues) THEN <<>>
  ELSE (IF issues[k].type = type THEN <<issues[k]>> ELSE <<>>) \o OfType(issues, type, k + 1)

\* what the same scan reports with autoFix off
WithoutAutoFix == CodeValidate(prev.files, FALSE, config).result

\* C24: auto-fix only inserts placeholder lines: the rewritten file without
\* its placeholders is the file as it was, one line is added per fixed
\* entry, and the long-function issues are those of the scan with autoFix
\* off.
C24_AutoFixOnlyInserts ==
  (report.api = "CodeValidator" /\ report.autoFix /\ ~report.runs[1].error) =>
    /\ \A p \in Paths :
         /\ WithoutPlaceholders(files[p].lines, 1) = WithoutPlaceholders(prev.files[p].lines, 1)
         /\ calls = 1 => WithoutPlaceholders(files[p].lines, 1) = original[p].lines
         /\ Len(files[p].lines) = Len(prev.files[p].lines)
              + Cardinality({k \in 1..Len(report.fixed) : report.fixed[k].file = p})
    /\ OfType(report.issues, "long-function", 1) = OfType(WithoutAutoFix.issues, "long-function", 1)

\* two placeholders were inserted into a file with a long function
C24_Witness ==
  /\ report.api = "CodeValidator"
  /\ report.autoFix
  /\ calls = 1
  /\ Len(report.fixed) = 2
  /\ Len(files["src/a.js"].lines) = Len(original["src/a.js"].lines) + 2
  /\ Len(OfType(report.issues, "long-function", 1)) > 0

\* C28: an auto-fix scan detects what the scan with autoFix off detects: the
\* same totalFunctions, commentedFunctions, longFunctions and score, and its
\* fixed entries are the missing-comment issues of that scan.
C28_AutoFixDetectsTheSame ==
  (report.api = "CodeValidator" /\ report.autoFix /\ ~report.runs[1].error) =>
    /\ report.runs[1].metrics = WithoutAutoFix.metrics
    /\ report.runs[1].score = WithoutAutoFix.score
    /\ report.fixed = OfType(WithoutAutoFix.issues, "missing-comment", 1)


\* the '{' and '}' of a line taken one by one from character k on, with the
\* running count of '{' minus '}': hit when the count is zero after a '{'
\* was seen, looked at after every brace or (onClose) after a '}' only
RECURSIVE CountBraces(_, _, _, _, _)
CountBraces(chars, k, count, seen, onClose) ==
  IF k > Len(chars) THEN [hit |-> FALSE, count |-> count, seen |-> seen]
  ELSE LET next == IF chars[k] = "{" THEN count + 1 ELSE count - 1
           opened == seen \/ chars[k] = "{"
       IN  IF opened /\ next = 0 /\ (chars[k] = "}" \/ ~onClose)
           THEN [hit |-> TRUE, count |-> next, seen |-> opened]
           ELSE CountBraces(chars, k + 1, next, opened, onClose)

\* the 0-based line on which a function starting at line i ends
RECURSIVE ExtentEnd(_, _, _, _, _)
ExtentEnd(lines, i, count, seen, onClose) ==
  IF i >= Len(lines) THEN Len(lines) - 1
  ELSE LET Line(r) == IF r.hit THEN i ELSE ExtentEnd(lines, i + 1, r.count, r.seen, onClose)
       IN  Line(CountBraces(Braces(lines[i + 1]), 1, count, seen, onClose))

LongIssuesAt(issues, line) ==
  Cardinality({k \in 1..Len(issues) :
                 issues[k].type = "long-function" /\ issues[k].line = line})

\* every function detected in the file ends where the brace count says,
\* has end - start + 1 lines, and is flagged when it has more than
\* maxFunctionLines lines
ExtentsAre(onClose) ==
  (calls = 1 /\ "issues" \in DOMAIN result /\ "lines" \in DOMAIN arg) =>
    \A k \in 1..Len(_extractFunctions(arg.lines)) :
      LET func == _extractFunctions(arg.lines)[k]
      IN  /\ func.endLine = ExtentEnd(arg.lines, func.startLine, 0, FALSE, onClose)
          /\ func.lineCount = func.endLine - func.startLine + 1
          /\ LongIssuesAt(result.issues, func.startLine + 1)
               = (IF func.lineCount > arg.maxFunctionLines THEN 1 ELSE 0)

\* C26 as stated: a function's extent ends on the first line on which the
\* running count of '{' minus '}' is back at zero after at least one '{';
\* or on the last line of the file; it has end - start + 1 lines and is
\* flagged exactly when that is more than maxFunctionLines.
C26_FunctionExtent == ExtentsAre(FALSE)

\* C26 amended: a function's extent ends on the first line on which a '}'
\* brings the running count of '{' minus '}' to zero after at least one '{',
\* or on the last line of the file; it has end - start + 1 lines and is
\* flagged exactly when that is more than maxFunctionLines.
C26_FunctionExtentOnClose == ExtentsAre(TRUE)

\* one function has exactly maxFunctionLines lines and is not flagged, the
\* next has one line more and is flagged
C26_Witness ==
  /\ calls = 1
  /\ "lines" \in DOMAIN arg
  /\ \E k1, k2 \in 1..Len(_extractFunctions(arg.lines)) :
       /\ _extractFunctions(arg.lines)[k1].lineCount = arg.maxFunctionLines
       /\ _extractFunctions(arg.lines)[k2].lineCount = arg.maxFunctionLines + 1
       /\ LongIssuesAt(result.issues, _extractFunctions(arg.lines)[k1].startLine + 1) = 0
       /\ LongIssuesAt(result.issues, _extractFunctions(arg.lines)[k2].startLine + 1) = 1


\* the lines of the project that start a function: they match a function
\* pattern and are no comment
FunctionStarts ==
  UNION {{<<p, i>> : i \in {j \in 1..Len(files[p].lines) :
                              /\ FunctionPattern(files[p].lines[j]) # 0
                              /\ ~StartsSlashSlash(files[p].lines[j])
                              /\ ~StartsSlashStar(files[p].lines[j])}} :
           p \in {q \in Paths : files[q].exists}}

\* C25: a code scan with enforceComments on and autoFix off counts every
\* function of every file in totalFunctions, counts each of them either as
\* commented or by one missing-comment issue, and counts the long-function
\* issues in longFunctions; one commented and one uncommented short function
\* in two files score 60.
C25_FunctionCounts ==
  (report.api = "CodeValidator" /\ ~report.autoFix /\ config.enforceComments
     /\ ~report.runs[1].error) =>
    LET m == report.runs[1].metrics
    IN  /\ m.totalFunctions = Cardinality(FunctionStarts)
        /\ m.commentedFunctions + CountType(report.issues, "missing-comment", 1)
             = m.totalFunctions
        /\ m.longFunctions = CountType(report.issues, "long-function", 1)
        /\ \A f \in FunctionStarts :
             Cardinality({k \in 1..Len(report.issues) :
                            /\ report.issues[k].type = "missing-comment"
                            /\ report.issues[k].file = f[1]
                            /\ report.issues[k].line = f[2]}) <= 1
        /\ (m.totalFunctions = 2 /\ m.commentedFunctions = 1 /\ m.longFunctions = 0)
             => report.runs[1].score = 60

\* the scenario: src/a.js holds a commented function, src/b.js an
\* uncommented one
C25_Witness ==
  /\ report.api = "CodeValidator"
  /\ ~report.autoFix
  /\ config.enforceComments
  /\ files["src/a.js"].lines = <<"cmt", "func", "stmt", "close">>
  /\ files["src/b.js"].exists
  /\ report.runs[1].metrics.totalFunctions = 2
  /\ report.runs[1].metrics.commentedFunctions = 1
  /\ CountType(report.issues, "missing-comment", 1) = 1
  /\ report.issues[1].file = "src/b.js"
  /\ report.runs[1].score = 60


\* the package a statement of the file imports, for the statement that ends
\* on line i: 'pkg/sub' and '@scope/name/sub' count as 'pkg' and
\* '@scope/name', a path counts for nothing, and a wrapped import statement
\* counts on the line that closes it
ImportedAt(lines, i) ==
  CASE lines[i] = "req"        -> {"lodash"}
    [] lines[i] = "imp:sub"    -> {"lodash"}
    [] lines[i] = "imp:scoped" -> {"@scope/name"}
    [] lines[i] = "imp:from"   -> IF i > 1 /\ lines[i - 1] = "imp:open" THEN {"lodash"} ELSE {}
    [] OTHER                   -> {}

ImportedRoots ==
  UNION {UNION {ImportedAt(files[p].lines, i) : i \in 1..Len(files[p].lines)} :
           p \in {q \in Paths : files[q].exists}}

\* the declared dependencies that are not imported, in manifest order
RECURSIVE NotImported(_, _)
NotImported(deps, k) ==
  IF k > Len(deps) THEN <<>>
  ELSE (IF deps[k] \in ImportedRoots THEN <<>> ELSE <<deps[k]>>) \o NotImported(deps, k + 1)

RECURSIVE Texts(_, _)
Texts(issues, k) ==
  IF k > Len(issues) THEN <<>> ELSE <<issues[k].text>> \o Texts(issues, k + 1)

\* C27: the unused-dependency check reports one issue for each declared
\* dependency that no require or import statement of the project names by
\* its package root, and nothing else; without a manifest it reports
\* nothing.
C27_UnusedDependencies ==
  (calls = 1 /\ \A k \in 1..Len(result) : result[k].type = "unused-dependency") =>
    /\ Texts(result, 1) = NotImported(IF pkg.exists /\ pkg.parses THEN pkg.deps ELSE <<>>, 1)
    /\ ~pkg.exists => result = <<>>


\* the files whose content the last call changed on disk
Rewritten == {p \in Paths : files[p] # prev.files[p]}

\* the files named in the returned fixed list
NamedFixed == {report.fixed[k].file : k \in 1..Len(report.fixed)}

\* C29: after a validate call the files changed on disk are the files named
\* in the returned fixed list; none is changed when autoFix is off or when
\* the code scanner is not run.
C29_WritesAreReported ==
  Called =>
    /\ Rewritten = NamedFixed
    /\ ~report.autoFix => Rewritten = {}
    /\ "code" \notin Range(report.standards) => Rewritten = {}


\* C30: when every validator that CodeDirectivesSDK.validate ran reports no
\* issue, the overall score is 100 and passed is true, whichever standards
\* were requested.
C30_CleanProjectScores100 ==
  ( /\ report.api = "CodeDirectivesSDK"
    /\ Len(report.runs) > 0
    /\ \A k \in 1..Len(report.runs) : report.runs[k].issues = <<>> )
  => /\ report.overallScore.num = 100 * report.overallScore.den
     /\ report.passed

====
